---------------------------- MODULE Spec2Model ----------------------------
(***************************************************************************)
(* A model of dlhd_proxy.step_daddy.StepDaddy: the adaptive fetcher (_get, *)
(* _flaresolverr_get, the cookie store and the transport mode) and the     *)
(* channel directory loader (load_channels), run by asyncio tasks that     *)
(* interleave at their await points.                                       *)
(*                                                                         *)
(* Strings the code inspects (host names, cookie domains, channel names)   *)
(* are sequences of one-character strings, so that endswith, lstrip,       *)
(* lower, startswith and the lexicographic order are computed.             *)
(* Optional values (None or a value) are sequences of length 0 or 1.       *)
(***************************************************************************)
EXTENDS Integers, Sequences, FiniteSets, TLC

\* ------------------------------------------------------------------ bounds

\* The clock (time.time(), in whole seconds) runs from 0 to MaxTime.
MaxTime == 2
\* The calls (of _get, _flaresolverr_get, load_channels) started in one run.
MaxCalls == 2
\* The cookies the session's jar may hold.
MaxCookies == 2

\* The asyncio tasks that run the calls.
Tasks == {1, 2}

\* ---------------------------------------------------------------- strings

None == <<>>
Some(x) == <<x>>

\* str.lower() of one character (the upper-case letters of the host names
\* and of the paths are D, H, L, S, T and V).
LowerChar(c) ==
    IF c = "D" THEN "d" ELSE IF c = "H" THEN "h" ELSE IF c = "L" THEN "l"
    ELSE IF c = "S" THEN "s" ELSE IF c = "T" THEN "t"
    ELSE IF c = "V" THEN "v"
    ELSE c

\* str.lower()
Lower(s) == [i \in 1..Len(s) |-> LowerChar(s[i])]

\* str.endswith(suffix)
EndsWith(s, suffix) ==
    /\ Len(suffix) <= Len(s)
    /\ SubSeq(s, Len(s) - Len(suffix) + 1, Len(s)) = suffix

\* str.startswith(prefix)
StartsWith(s, prefix) ==
    /\ Len(prefix) <= Len(s)
    /\ SubSeq(s, 1, Len(prefix)) = prefix

\* str.lstrip(chars), chars a set of characters
RECURSIVE LStrip(_, _)
LStrip(s, chars) ==
    IF s # <<>> /\ Head(s) \in chars THEN LStrip(Tail(s), chars) ELSE s

\* The index of the first occurrence of character c in s, 0 when absent.
RECURSIVE FindFrom(_, _, _)
FindFrom(s, c, i) ==
    IF i > Len(s) THEN 0 ELSE IF s[i] = c THEN i ELSE FindFrom(s, c, i + 1)

\* urlsplit(url).hostname: the netloc without its port, lower-cased; None
\* (here the empty string, as every caller writes `hostname or ...`) when
\* the URL has no netloc.
Hostname(url) ==
    LET colon == FindFrom(url.netloc, ":", 1)
        host == IF colon = 0 THEN url.netloc
                ELSE SubSeq(url.netloc, 1, colon - 1)
    IN Lower(host)

DLHD_DAD == <<"d", "l", "h", "d", ".", "d", "a", "d">>


\* ------------------------------------------------------------------ inputs

\* The URLs the calls fetch: the netloc and whether the path is the listing
\* page of load_channels.
ListingUrl == [netloc |-> DLHD_DAD, listing |-> TRUE]

Urls ==
    { [netloc |-> DLHD_DAD, listing |-> FALSE],
      [netloc |-> <<"D", "L", "H", "D", ".", "d", "a", "d", ":", "8">>,
       listing |-> FALSE],
      [netloc |-> <<"c", "d", "n", ".", "i", "o">>, listing |-> FALSE] }

\* The status codes a direct response carries.
DirectStatuses == {200, 401, 403, 500}

\* int(s) of the Max-Age values that are numbers; any other value raises.
IntOf == ("0" :> 0) @@ ("1" :> 1) @@ ("2" :> 2) @@ ("-1" :> -1)

\* email.utils.parsedate_to_datetime(s).timestamp() of the Expires values
\* that are dates; any other value raises.
DateOf == ("date1" :> 1) @@ ("date3" :> 3)

\* The morsels of a Set-Cookie header: the attributes the code reads
\* ("" is an attribute that is absent).
Morsels ==
    { [max_age |-> "", expires |-> "", domain |-> <<>>],
      [max_age |-> "2", expires |-> "date3",
       domain |-> <<".", "D", "L", "H", "D", ".", "d", "a", "d">>],
      [max_age |-> "x", expires |-> "date3",
       domain |-> <<"c", "d", "n", ".", "i", "o">>],
      [max_age |-> "", expires |-> "date1", domain |-> <<>>] }

\* The headers of a solution: (key, value) pairs, the value a list of
\* morsels.
SolutionHeaders ==
    { <<>>, << [key |-> "Content-Type", value |-> <<>>] >> }
    \cup { << [key |-> "Set-Cookie", value |-> <<m>>] >> : m \in Morsels }
    \cup { << [key |-> "set-cookie",
               value |-> << [max_age |-> "0", expires |-> "",
                             domain |-> <<>>],
                            [max_age |-> "", expires |-> "never",
                             domain |-> <<"d", "a", "d">>] >> ] >> }

\* The status of a solution: absent, or a number.
SolutionStatuses == {None, Some(200), Some(403)}

\* The text of a response: a listing page for the listing URL (Pages, the
\* matches re.findall finds in it), the empty text for any other URL.
NoText == <<>>

\* The answers of the solver endpoint to one POST: the POST raises, or it
\* returns an HTTP status and a body that json() parses or not; a parsed
\* envelope has a status, a message and a solution.
Envelope(st, msg, solution) ==
    [status |-> st, message |-> msg, solution |-> solution]

Solution(st, headers, text) ==
    [status |-> st, headers |-> headers, response |-> text]

NoSolution == Solution(None, <<>>, NoText)

Reply(raised, code, parses, envelope) ==
    [raised |-> raised, status_code |-> code, parses |-> parses,
     payload |-> envelope]

\* The exceptions a request of the session raises ("" is none raised).
TransportErrors == {"ConnectionError", "Timeout"}

SolverFailures ==
    { Reply(e, 0, FALSE, Envelope("", "", NoSolution)) : e \in TransportErrors }
    \cup
    { Reply("", 500, TRUE, Envelope("ok", "", NoSolution)),
      Reply("", 400, FALSE, Envelope("", "", NoSolution)),
      Reply("", 200, FALSE, Envelope("", "", NoSolution)),
      Reply("", 200, TRUE, Envelope("error", "boom", NoSolution)),
      Reply("", 399, TRUE, Envelope("", "", NoSolution)) }

\* The solutions tried: every status without headers, and every header list
\* with status 200.
SolverSuccesses(texts) ==
    { Reply("", 200, TRUE, Envelope("ok", "", Solution(st, <<>>, text))) :
        st \in SolutionStatuses, text \in texts }
    \cup
    { Reply("", 200, TRUE, Envelope("ok", "", Solution(Some(200), h, text))) :
        h \in SolutionHeaders, text \in texts }

\* ------------------------------------------------------------------- state

VARIABLES
    now,                    \* time.time()
    cookies,                \* self._session.cookies, in insertion order
    self_flaresolverr_url,  \* self._flaresolverr_url
    config_flaresolverr_url,\* config.flaresolverr_url
    last_transport_mode,    \* self._last_transport_mode: None, or a boolean
    channels,               \* self.channels
    task,                   \* each task's call and where it is suspended
    ended,                  \* the call that ended last, and what it ended with
    observed,               \* what the last reader of self.channels got
    stored,                 \* history: the Max-Age cookies stored, and when
    calls,                  \* the calls started so far
    given,                  \* history: the list _enumerate_duplicate_names got
    enumerating,            \* channel_list of _enumerate_duplicate_names
    enumerated,             \* _enumerate_duplicate_names has returned
    proxy_content,          \* config.proxy_content
    resolution,             \* the call of stream and where it is suspended
    concurrent,             \* a second call of stream, run beside the first
    environ,                \* os.environ: PUBLIC_URL and API_URL
    settings_file,          \* the file at SETTINGS_FILE
    api_url,                \* config.api_url
    settings_call           \* history: the last call of the settings module

vars ==
    << now, cookies, self_flaresolverr_url, config_flaresolverr_url,
       last_transport_mode, channels, task, ended, observed, stored,
       calls, given, enumerating, enumerated, proxy_content, resolution,
       concurrent, environ, settings_file, api_url, settings_call >>

\* The state of the fetcher and of the directory.
fetcherVars ==
    << now, cookies, self_flaresolverr_url, config_flaresolverr_url,
       last_transport_mode, channels, task, ended, observed, stored,
       calls >>

\* The list a call of _enumerate_duplicate_names works on.
namesVars == << given, enumerating, enumerated >>

\* The state of a call of stream.
streamVars == << proxy_content, resolution, concurrent >>

\* The state the settings module reads and writes.
settingsVars == << environ, settings_file, api_url, settings_call >>

SolverUrl == "http://solver:8191/v1"

\* A task that runs no call.  A task in a call holds the call's arguments
\* and locals, and the history of the call that the properties read: the
\* requests sent, the status of the direct response, the error the direct
\* request raised, the answer of the solver endpoint, the text _get returned,
\* the channel list when the call started, the state the call started in,
\* the transport mode _log_transport_change found recorded and whether it
\* logged a change of transport.
Idle ==
    [ call |-> "idle", pc |-> "idle", url |-> ListingUrl,
      use_flaresolverr |-> FALSE, result |-> None,
      requests |-> <<>>, direct_status |-> None, direct_error |-> "",
      solver_reply |-> None, text |-> NoText, had |-> <<>>,
      start |-> None, previous_mode |-> None, switch_logged |-> FALSE ]

\* A request sent: the transport and the URL asked for.
Request(via, url) == [via |-> via, url |-> url]

\* ----------------------------------------------------------- the fetcher

\* `self._flaresolverr_url or config.flaresolverr_url`
FlaresolverrUrl ==
    IF self_flaresolverr_url # "" THEN self_flaresolverr_url
    ELSE config_flaresolverr_url

CanUseFlaresolverr(url) ==
    /\ FlaresolverrUrl # ""
    /\ EndsWith(Hostname(url), DLHD_DAD)

\* A variant of HasValidCookie that counts a cookie expiring now as valid.
HasValidCookieInclusive(hostname) ==
    \E i \in 1..Len(cookies) :
        LET domain == Lower(LStrip(cookies[i].domain, {"."}))
        IN /\ ~(domain # <<>> /\ ~EndsWith(hostname, domain))
           /\ (cookies[i].expires = None \/ cookies[i].expires[1] >= now)

HasValidCookie(hostname) ==
    \E i \in 1..Len(cookies) :
        LET domain == Lower(LStrip(cookies[i].domain, {"."}))
        IN /\ ~(domain # <<>> /\ ~EndsWith(hostname, domain))
           /\ (cookies[i].expires = None \/ cookies[i].expires[1] > now)

\* A variant of ShouldUseFlaresolverr that stays with the solver once the
\* solver is the transport recorded.
ShouldUseFlaresolverrSticky(url) ==
    /\ CanUseFlaresolverr(url)
    /\ \/ last_transport_mode = Some(TRUE)
       \/ ~HasValidCookie(Hostname(url))

\* A variant of ShouldUseFlaresolverr that leaves the solver to one call at
\* a time: a call goes direct while another awaits the solver.
ShouldUseFlaresolverrOneAtATime(url) ==
    /\ CanUseFlaresolverr(url)
    /\ ~HasValidCookie(Hostname(url))
    /\ \A t \in Tasks : task[t].pc # "await_post"

\* A variant of ShouldUseFlaresolverr that does not look at the cookies.
ShouldUseFlaresolverrIgnoringCookies(url) == CanUseFlaresolverr(url)

ShouldUseFlaresolverr(url) ==
    IF ~CanUseFlaresolverr(url) THEN FALSE
    ELSE ~HasValidCookie(Hostname(url))

\* dict keys compared as key.lower()
LowerKey(key) ==
    IF key = "Set-Cookie" THEN "set-cookie"
    ELSE IF key = "Content-Type" THEN "content-type" ELSE key

\* cookies_raw of _store_solution_cookies: the morsels of every header
\* whose lower-cased key is set-cookie, in order.
RECURSIVE CookiesRaw(_)
CookiesRaw(headers) ==
    IF headers = <<>> THEN <<>>
    ELSE (IF LowerKey(Head(headers).key) # "set-cookie" THEN <<>>
          ELSE Head(headers).value) \o CookiesRaw(Tail(headers))

\* A variant of MorselExpires that reads Max-Age as a timestamp.
MorselExpiresAbsolute(m, t) ==
    IF m.max_age # ""
    THEN (IF m.max_age \in DOMAIN IntOf THEN Some(IntOf[m.max_age])
          ELSE None)
    ELSE IF m.expires # ""
    THEN (IF m.expires \in DOMAIN DateOf THEN Some(DateOf[m.expires])
          ELSE None)
    ELSE None

\* The expiry _store_solution_cookies gives a morsel at time t.
MorselExpires(m, t) ==
    IF m.max_age # ""
    THEN (IF m.max_age \in DOMAIN IntOf THEN Some(t + IntOf[m.max_age])
          ELSE None)
    ELSE IF m.expires # ""
    THEN (IF m.expires \in DOMAIN DateOf THEN Some(DateOf[m.expires])
          ELSE None)
    ELSE None

\* FakeCookieJar.set: the jar appends FakeCookie(name, value, domain or "",
\* expires).  The name, value and path of a cookie are never read.
JarSet(jar, domain, expires) ==
    Append(jar, [domain |-> domain, expires |-> expires])

\* The jar after _store_solution_cookies(url, headers) at time t.
RECURSIVE StoreMorsels(_, _, _, _)
StoreMorsels(jar, morsels, hostname, t) ==
    IF morsels = <<>> THEN jar
    ELSE LET m == Head(morsels)
             domain == IF m.domain # <<>> THEN m.domain ELSE hostname
         IN StoreMorsels(JarSet(jar, domain, MorselExpires(m, t)),
                         Tail(morsels), hostname, t)

\* A variant of StoreSolutionCookies that stores a cookie for every
\* solution.
StoreSolutionCookiesAlways(jar, url, headers, t) ==
    JarSet(jar, DLHD_DAD, None)

StoreSolutionCookies(jar, url, headers, t) ==
    LET cookies_raw == CookiesRaw(headers)
        hostname == Lower(IF Hostname(url) # <<>> THEN Hostname(url)
                          ELSE DLHD_DAD)
    IN IF cookies_raw = <<>> THEN jar
       ELSE StoreMorsels(jar, cookies_raw, hostname, t)

\* A response: the transport it came by, its status code and its text.
Response(via, code, text) ==
    [via |-> via, status_code |-> code, text |-> text]

NoResponse == Response("none", 0, NoText)

\* _FlaresolverrResponse(solution): `int(solution.get("status") or 0)`
FlaresolverrResponse(solution) ==
    Response("solver",
             IF solution.status = None THEN 0 ELSE solution.status[1],
             solution.response)

\* What a call ends with: a response returned, or an error raised.
Returns(response) == [ok |-> TRUE, response |-> response, error |-> ""]
Raises(error) == [ok |-> FALSE, response |-> NoResponse, error |-> error]

\* A variant of FlaresolverrGetEnd that does not check the HTTP status of
\* the solver's answer.
FlaresolverrGetEndAnyStatus(reply) ==
    IF reply.raised # "" THEN Raises(reply.raised)
    ELSE IF ~reply.parses THEN Raises("Invalid Flaresolverr response")
    ELSE IF reply.payload.status # "ok"
    THEN Raises(IF reply.payload.message # "" THEN reply.payload.message
                ELSE "Unknown Flaresolverr error")
    ELSE Returns(FlaresolverrResponse(reply.payload.solution))

\* _flaresolverr_get from the answer of the POST on: what it ends with.
FlaresolverrGetEnd(reply) ==
    IF reply.raised # "" THEN Raises(reply.raised)
    ELSE IF reply.status_code >= 400
    THEN Raises("Flaresolverr request failed with HTTP")
    ELSE IF ~reply.parses THEN Raises("Invalid Flaresolverr response")
    ELSE IF reply.payload.status # "ok"
    THEN Raises(IF reply.payload.message # "" THEN reply.payload.message
                ELSE "Unknown Flaresolverr error")
    ELSE Returns(FlaresolverrResponse(reply.payload.solution))


\* ------------------------------------------------- the channel directory

\* The code point order of the characters of channel names.
Ord ==
    (" " :> 32) @@ ("#" :> 35) @@ ("&" :> 38) @@ ("(" :> 40) @@ (")" :> 41)
    @@ ("+" :> 43) @@ ("0" :> 48) @@ ("1" :> 49) @@ ("2" :> 50)
    @@ ("3" :> 51) @@ ("4" :> 52) @@ ("5" :> 53) @@ ("6" :> 54)
    @@ ("7" :> 55) @@ ("8" :> 56) @@ ("9" :> 57) @@ (";" :> 59)
    @@ ("A" :> 65) @@ ("B" :> 66) @@ ("a" :> 97) @@ ("m" :> 109)
    @@ ("p" :> 112)

\* a < b for two str values
RECURSIVE StrLess(_, _)
StrLess(a, b) ==
    IF b = <<>> THEN FALSE
    ELSE IF a = <<>> THEN TRUE
    ELSE IF Head(a) # Head(b) THEN Ord[Head(a)] < Ord[Head(b)]
    ELSE StrLess(Tail(a), Tail(b))

\* str(n) for n >= 0
DigitChars == <<"0", "1", "2", "3", "4", "5", "6", "7", "8", "9">>

RECURSIVE Str(_)
Str(n) ==
    IF n < 10 THEN <<DigitChars[n + 1]>>
    ELSE Str(n \div 10) \o <<DigitChars[(n % 10) + 1]>>

\* str.strip(): the white space at both ends removed
RECURSIVE RStrip(_, _)
RStrip(s, chars) ==
    IF s # <<>> /\ s[Len(s)] \in chars
    THEN RStrip(SubSeq(s, 1, Len(s) - 1), chars) ELSE s

Strip(s) == RStrip(LStrip(s, {" "}), {" "})

\* html.unescape(s), for the character reference &amp;
AmpRef == <<"&", "a", "m", "p", ";">>

RECURSIVE Unescape(_)
Unescape(s) ==
    IF s = <<>> THEN <<>>
    ELSE IF StartsWith(s, AmpRef)
    THEN <<"&">> \o Unescape(SubSeq(s, Len(AmpRef) + 1, Len(s)))
    ELSE <<Head(s)>> \o Unescape(Tail(s))

\* str.replace(c, "")
RECURSIVE Remove(_, _)
Remove(s, c) ==
    IF s = <<>> THEN <<>>
    ELSE (IF Head(s) = c THEN <<>> ELSE <<Head(s)>>) \o Remove(Tail(s), c)

\* A channel: its id and its name (the tags and the logo, looked up in
\* meta.json by name, are not read by any step modelled here).
Channel(id, name) == [id |-> id, name |-> name]

\* A variant of CollectChannels that keeps every match.
CollectChannelsKeepingAll(matches, seen_ids) ==
    [i \in 1..Len(matches) |->
        Channel(matches[i].id,
                Remove(Unescape(Strip(matches[i].title)), "#"))]

\* The loop of load_channels over the matches of a page: a match whose id
\* was seen is skipped, the others become channels in page order.
RECURSIVE CollectChannels(_, _)
CollectChannels(matches, seen_ids) ==
    IF matches = <<>> THEN <<>>
    ELSE LET channel_id == Head(matches).id
             name == Remove(Unescape(Strip(Head(matches).title)), "#")
         IN IF channel_id \in seen_ids
            THEN CollectChannels(Tail(matches), seen_ids)
            ELSE <<Channel(channel_id, name)>>
                 \o CollectChannels(Tail(matches), seen_ids \cup {channel_id})

\* _enumerate_duplicate_names: counts[name] over the whole list, seen[name]
\* over the channels up to the i-th.
CountName(channel_list, name, upto) ==
    Cardinality({j \in 1..upto : channel_list[j].name = name})

\* A variant of EnumerateDuplicateNames that leaves the first channel of a
\* name as it is and numbers the others from 2.
EnumerateDuplicateNamesFromSecond(list) ==
    [i \in 1..Len(list) |->
        LET name == list[i].name
        IN IF CountName(list, name, i) > 1
           THEN Channel(list[i].id,
                        name \o <<" ", "(">>
                        \o Str(CountName(list, name, i)) \o <<")">>)
           ELSE list[i]]

EnumerateDuplicateNames(channel_list) ==
    [i \in 1..Len(channel_list) |->
        LET name == channel_list[i].name
        IN IF CountName(channel_list, name, Len(channel_list)) > 1
           THEN Channel(channel_list[i].id,
                        name \o <<" ", "(">>
                        \o Str(CountName(channel_list, name, i)) \o <<")">>)
           ELSE channel_list[i]]

\* A variant of SortKeyLess that compares the names alone.
SortKeyLessByName(a, b) == StrLess(a.name, b.name)

\* The sort key of load_channels: (name.startswith("18"), name), compared
\* as tuples with False < True.
SortKeyLess(a, b) ==
    LET a18 == StartsWith(a.name, <<"1", "8">>)
        b18 == StartsWith(b.name, <<"1", "8">>)
    IN IF a18 # b18 THEN b18 ELSE StrLess(a.name, b.name)

\* sorted(channel_list, key=...): a stable sort.
RECURSIVE InsertSorted(_, _)
InsertSorted(sorted, channel) ==
    IF sorted = <<>> THEN <<channel>>
    ELSE IF SortKeyLess(channel, Head(sorted)) THEN <<channel>> \o sorted
    ELSE <<Head(sorted)>> \o InsertSorted(Tail(sorted), channel)

RECURSIVE SortedChannels(_)
SortedChannels(channel_list) ==
    IF channel_list = <<>> THEN <<>>
    ELSE InsertSorted(
             SortedChannels(SubSeq(channel_list, 1, Len(channel_list) - 1)),
             channel_list[Len(channel_list)])

\* A variant of LoadChannelsFinally that publishes the list unsorted.
LoadChannelsFinallyUnsorted(collected) ==
    EnumerateDuplicateNames(collected)

\* The finally block of load_channels: what self.channels becomes, from the
\* channels collected when the block is entered.
LoadChannelsFinally(collected) ==
    SortedChannels(EnumerateDuplicateNames(collected))

\* The listing pages: the (id, title) matches re.findall returns.
Match(id, title) == [id |-> id, title |-> title]

Pages ==
    { <<>>,
      << Match("2", <<"B">>), Match("1", <<"A">>) >>,
      << Match("1", <<"1", "8", "+">>), Match("2", <<" ", "A", "#">>),
         Match("1", <<"B">>), Match("3", <<"A">>) >>,
      << Match("1", <<"A">>), Match("2", <<"A">>),
         Match("3", <<"A", " ", "(", "1", ")">>),
         Match("4", <<"A", "&", "a", "m", "p", ";", "B">>) >> }

\* The texts a response to `url` may carry.
Texts(url) == IF url.listing THEN Pages ELSE {NoText}


\* ------------------------------------------------------------- the calls

\* load_channels from the return of its _get on: the channels it collects
\* (none when _get raised or the status is 400 or more) and what it ends
\* with.
LoadCollected(got) ==
    IF got.ok /\ got.response.status_code < 400
    THEN CollectChannels(got.response.text, {})
    ELSE <<>>

LoadEnd(got) ==
    IF ~got.ok THEN got
    ELSE IF got.response.status_code >= 400
    THEN Raises("Failed to load channels: HTTP")
    ELSE Returns(NoResponse)

\* The call of task record tk ends: `got` is what _get (or, for a solve
\* call, _flaresolverr_get) ended with.  The caller's code up to its return
\* runs in the same step, as no await separates them.
EndCall(tk, got) ==
    [tk EXCEPT !.pc = "done",
               !.text = got.response.text,
               !.result = Some(IF tk.call = "load" THEN LoadEnd(got)
                               ELSE got)]

\* A call of task t ends: the task is free for another call.  (Of the
\* call's history, the state it started in is dropped.)
Ends(t, tk, got) ==
    /\ task' = [task EXCEPT ![t] = Idle]
    /\ ended' = Some([EndCall(tk, got) EXCEPT !.start = None])

\* A variant of ChannelsAfter in which a load keeps the list another load
\* has published since it started.
ChannelsAfterUnlessReplaced(tk, got) ==
    IF tk.call = "load" /\ channels = tk.had
    THEN LoadChannelsFinally(LoadCollected(got))
    ELSE channels

\* A variant of ChannelsAfter without the finally block: a load that fails
\* leaves the list as it is.
ChannelsAfterWithoutFinally(tk, got) ==
    IF tk.call = "load" /\ LoadEnd(got).ok
    THEN LoadChannelsFinally(LoadCollected(got))
    ELSE channels

\* self.channels after the call of task record tk has ended: load_channels
\* assigns it in its finally block, the other calls leave it.
ChannelsAfter(tk, got) ==
    IF tk.call = "load" THEN LoadChannelsFinally(LoadCollected(got))
    ELSE channels

\* The state a call starts in, kept for the properties.
Snapshot ==
    [now |-> now, cookies |-> cookies, solver |-> FlaresolverrUrl,
     stored |-> stored, mode |-> last_transport_mode]

\* _should_log_url(url): the netloc, lower-cased, ends with a logged
\* domain.
ShouldLogUrl(url) == EndsWith(Lower(url.netloc), DLHD_DAD)

\* _log_transport_change(using_flaresolverr, url): whether it logs
\* "Transport for ... switched to ...", previous_mode being the mode it
\* found recorded.
LogTransportChange(previous_mode, using_flaresolverr, url) ==
    /\ previous_mode # None
    /\ previous_mode[1] # using_flaresolverr
    /\ ShouldLogUrl(url)

\* The call of task record tk after _log_transport_change.
TransportLogged(tk) ==
    [tk EXCEPT !.previous_mode = last_transport_mode,
               !.switch_logged =
                   LogTransportChange(last_transport_mode,
                                      tk.use_flaresolverr, tk.url)]

\* A variant of GetReturns that raises for a status of 400 or more.
GetReturnsRaisingForStatus(response) ==
    IF response.status_code >= 400 THEN Raises("HTTP error")
    ELSE Returns(response)

\* A variant of GetRaises that raises an error of its own.
GetRaisesWrapped(error) == Raises("request failed")

\* The end of _get with a response: the response is returned as it is.
GetReturns(response) == Returns(response)

\* The except clause of _get: the error of the first request is raised on.
GetRaises(error) == Raises(error)

\* _get(url) up to its first await: the transport is chosen and the first
\* request sent.  In _flaresolverr_get the URL in use is stored before the
\* POST.
GetBegin(t, call, url) ==
    /\ task[t].pc = "idle"
    /\ calls < MaxCalls
    /\ calls' = calls + 1
    /\ LET use == ShouldUseFlaresolverr(url)
           tk == [Idle EXCEPT !.call = call, !.url = url,
                              !.use_flaresolverr = use,
                              !.had = channels,
                              !.start = Some(Snapshot)]
       IN IF use
          THEN /\ self_flaresolverr_url' = FlaresolverrUrl
               /\ task' = [task EXCEPT ![t] =
                              [tk EXCEPT !.pc = "await_post",
                                         !.requests =
                                             <<Request("solver", url)>>]]
          ELSE /\ UNCHANGED self_flaresolverr_url
               /\ task' = [task EXCEPT ![t] =
                              [tk EXCEPT !.pc = "await_get",
                                         !.requests =
                                             <<Request("direct", url)>>]]
    /\ UNCHANGED << observed, namesVars, streamVars, settingsVars >>
    /\ UNCHANGED << now, cookies, config_flaresolverr_url,
                    last_transport_mode, channels, ended, stored >>

\* A task calls _get(url).
CallGet(t, url) == GetBegin(t, "get", url)

\* A task calls load_channels().
CallLoadChannels(t) == GetBegin(t, "load", ListingUrl)

\* A task calls _flaresolverr_get(url) itself: without a solver URL the
\* call raises before any request.
CallFlaresolverrGet(t, url) ==
    /\ task[t].pc = "idle"
    /\ calls < MaxCalls
    /\ calls' = calls + 1
    /\ self_flaresolverr_url' = FlaresolverrUrl
    /\ LET tk == [Idle EXCEPT !.call = "solve", !.url = url,
                              !.start = Some(Snapshot)]
       IN IF FlaresolverrUrl = ""
          THEN Ends(t, tk, Raises("Flaresolverr is not configured"))
          ELSE /\ task' = [task EXCEPT ![t] =
                              [tk EXCEPT !.pc = "await_post",
                                         !.requests =
                                             <<Request("solver", url)>>]]
               /\ UNCHANGED ended
    /\ UNCHANGED << observed, namesVars, streamVars, settingsVars >>
    /\ UNCHANGED << now, cookies, config_flaresolverr_url,
                    last_transport_mode, channels, stored >>

\* self._session.get raises: _get logs and re-raises.
DirectRaises(t, error) ==
    /\ task[t].pc = "await_get"
    /\ LET tk == [task[t] EXCEPT !.direct_error = error]
           got == GetRaises(error)
       IN /\ Ends(t, tk, got)
          /\ channels' = ChannelsAfter(tk, got)
    /\ UNCHANGED << observed, namesVars, streamVars, settingsVars >>
    /\ UNCHANGED << now, cookies, self_flaresolverr_url,
                    config_flaresolverr_url, last_transport_mode, stored,
                    calls >>

\* A variant of FallsBack that turns to the solver on 403 only.
FallsBackOn403Only(use_flaresolverr, status_code, url) ==
    /\ ~use_flaresolverr
    /\ status_code = 403
    /\ CanUseFlaresolverr(url)

\* A variant of FallsBack that turns to the solver on any error status.
FallsBackOnAnyError(use_flaresolverr, status_code, url) ==
    /\ ~use_flaresolverr
    /\ status_code >= 400
    /\ CanUseFlaresolverr(url)

\* After a direct response: whether _get turns to the solver.
FallsBack(use_flaresolverr, status_code, url) ==
    /\ ~use_flaresolverr
    /\ status_code \in {401, 403}
    /\ CanUseFlaresolverr(url)

\* self._session.get returns a response: on 401 or 403 from a host the
\* solver may serve, _get sends the request again by the solver; otherwise
\* it records the transport and returns the response.
DirectReturns(t, status_code, text) ==
    /\ task[t].pc = "await_get"
    /\ text \in Texts(task[t].url)
    /\ LET tk == [task[t] EXCEPT !.direct_status = Some(status_code)]
           got == GetReturns(Response("direct", status_code, text))
       IN IF FallsBack(tk.use_flaresolverr, status_code, tk.url)
          THEN /\ self_flaresolverr_url' = FlaresolverrUrl
               /\ task' = [task EXCEPT ![t] =
                              [tk EXCEPT !.use_flaresolverr = TRUE,
                                         !.pc = "await_post",
                                         !.requests =
                                             Append(@, Request("solver",
                                                               tk.url))]]
               /\ UNCHANGED << last_transport_mode, channels, ended >>
          ELSE /\ last_transport_mode' = Some(tk.use_flaresolverr)
               /\ Ends(t, TransportLogged(tk), got)
               /\ channels' = ChannelsAfter(tk, got)
               /\ UNCHANGED self_flaresolverr_url
    /\ UNCHANGED << observed, namesVars, streamVars, settingsVars >>
    /\ UNCHANGED << now, cookies, config_flaresolverr_url, stored, calls >>

\* What the properties keep of an answer of the solver endpoint.
Answer(reply) ==
    [raised |-> reply.raised, status_code |-> reply.status_code,
     parses |-> reply.parses, status |-> reply.payload.status,
     message |-> reply.payload.message,
     solution_status |-> reply.payload.solution.status,
     headers |-> reply.payload.solution.headers]

\* The Max-Age morsels _store_solution_cookies stores from `headers` at time
\* t, as the history keeps them: the domain stored, the time and the age.
StoredNow(url, headers, t) ==
    LET raw == CookiesRaw(headers)
        hostname == Lower(IF Hostname(url) # <<>> THEN Hostname(url)
                          ELSE DLHD_DAD)
    IN { [domain |-> IF raw[i].domain # <<>> THEN raw[i].domain
                     ELSE hostname,
          at |-> t, max_age |-> IntOf[raw[i].max_age]] :
            i \in {j \in 1..Len(raw) : raw[j].max_age \in DOMAIN IntOf} }

\* A variant of RetryRaises that returns the 401 or 403 response of the
\* direct request when the retry by the solver fails.
RetryRaisesKeepingDirect(tk, solved) ==
    GetReturns(Response("direct", tk.direct_status[1], NoText))

\* The retry by the solver, after a 401 or 403, fails: it is awaited outside
\* the try of _get, and what _flaresolverr_get raises is raised on as it is.
RetryRaises(tk, solved) == solved

\* self._session.post returns or raises: _flaresolverr_get ends, storing
\* the cookies of a solution; inside _get, a response is recorded as the
\* solver's and returned, and an error is raised on.
SolverAnswers(t, reply) ==
    /\ task[t].pc = "await_post"
    /\ reply.payload.solution.response \in Texts(task[t].url)
    /\ LET tk == [task[t] EXCEPT !.solver_reply = Some(Answer(reply))]
           solved == FlaresolverrGetEnd(reply)
           first == Len(tk.requests) = 1
           got == IF tk.call = "solve" THEN solved
                  ELSE IF solved.ok THEN GetReturns(solved.response)
                  ELSE IF first THEN GetRaises(solved.error)
                  ELSE RetryRaises(tk, solved)
           jar == IF solved.ok
                  THEN StoreSolutionCookies(cookies, tk.url,
                           reply.payload.solution.headers, now)
                  ELSE cookies
       IN /\ Len(jar) <= MaxCookies
          /\ cookies' = jar
          /\ stored' = IF solved.ok
                       THEN stored \cup StoredNow(tk.url,
                                reply.payload.solution.headers, now)
                       ELSE stored
          /\ Ends(t, IF solved.ok /\ tk.call # "solve"
                      THEN TransportLogged(tk) ELSE tk, got)
          /\ channels' = ChannelsAfter(tk, got)
          /\ last_transport_mode' =
                IF solved.ok /\ tk.call # "solve"
                THEN Some(tk.use_flaresolverr) ELSE last_transport_mode
    /\ UNCHANGED << observed, namesVars, streamVars, settingsVars >>
    /\ UNCHANGED << now, self_flaresolverr_url, config_flaresolverr_url,
                    calls >>

\* A second passes.
Tick ==
    /\ now < MaxTime
    /\ now' = now + 1
    /\ UNCHANGED << observed, namesVars, streamVars, settingsVars >>
    /\ UNCHANGED << cookies, self_flaresolverr_url, config_flaresolverr_url,
                    last_transport_mode, channels, task, ended, stored,
                    calls >>

\* A reader takes self.channels (playlist() with no argument does): the
\* history keeps, with the list it got, the tasks whose load_channels was
\* under way.
ReadChannels ==
    /\ observed' = [channels |-> channels,
                    loading |-> {t \in Tasks : task[t].call = "load"}]
    /\ UNCHANGED << now, cookies, self_flaresolverr_url,
                    config_flaresolverr_url, last_transport_mode, channels,
                    task, ended, stored, calls >>
    /\ UNCHANGED << namesVars, streamVars, settingsVars >>

\* ------------------------------------------------------ URLs and text

\* The index of the last occurrence of character c in s, 0 when absent.
RECURSIVE RFind(_, _)
RFind(s, c) ==
    IF s = <<>> THEN 0 ELSE IF s[Len(s)] = c THEN Len(s)
    ELSE RFind(SubSeq(s, 1, Len(s) - 1), c)

\* The index of the first character of s, from the i-th on, that is in
\* chars; Len(s) + 1 when there is none.
RECURSIVE FindAny(_, _, _)
FindAny(s, chars, i) ==
    IF i > Len(s) THEN Len(s) + 1 ELSE IF s[i] \in chars THEN i
    ELSE FindAny(s, chars, i + 1)

\* s.find(sub, i): the index of the first occurrence of sub in s from the
\* i-th character on, 0 when absent.
RECURSIVE FindSub(_, _, _)
FindSub(s, sub, i) ==
    IF i + Len(sub) - 1 > Len(s) THEN 0
    ELSE IF SubSeq(s, i, i + Len(sub) - 1) = sub THEN i
    ELSE FindSub(s, sub, i + 1)

\* s.replace(old, new): every occurrence of old, left to right, replaced;
\* with old empty, new goes before every character and at the end.
RECURSIVE Replace(_, _, _)
Replace(s, old, new) ==
    IF old = <<>>
    THEN IF s = <<>> THEN new
         ELSE new \o <<Head(s)>> \o Replace(Tail(s), old, new)
    ELSE LET at == FindSub(s, old, 1)
         IN IF at = 0 THEN s
            ELSE SubSeq(s, 1, at - 1) \o new
                 \o Replace(SubSeq(s, at + Len(old), Len(s)), old, new)

\* re.sub(r"\s+", "", s)
RECURSIVE RemoveSpace(_)
RemoveSpace(s) ==
    IF s = <<>> THEN <<>>
    ELSE IF Head(s) = " " THEN RemoveSpace(Tail(s))
    ELSE <<Head(s)>> \o RemoveSpace(Tail(s))

\* str.isdigit()
IsDigit(s) ==
    /\ s # <<>>
    /\ \A i \in 1..Len(s) : \E d \in 1..10 : DigitChars[d] = s[i]

\* int(s) of a string of digits
RECURSIVE ToInt(_)
ToInt(s) ==
    IF s = <<>> THEN 0
    ELSE 10 * ToInt(SubSeq(s, 1, Len(s) - 1))
         + (CHOOSE d \in 0..9 : DigitChars[d + 1] = s[Len(s)])

\* The characters of a URL scheme.
SchemeChars ==
    { "a", "b", "c", "d", "e", "f", "g", "h", "i", "j", "k", "l", "m", "n",
      "o", "p", "q", "r", "s", "t", "u", "v", "w", "x", "y", "z", "+", "-",
      "." }
    \cup { DigitChars[d] : d \in 1..10 }

\* The schemes of the URLs tried whose last path segment urlparse splits
\* at ";" into path and parameters (uses_params).
UsesParams == { <<>>, <<"h", "t", "t", "p">>, <<"h", "t", "t", "p", "s">>,
    <<"f", "t", "p">> }

\* urlparse(url), from the path on: the path up to "?" or "#", with the
\* parameters that follow the first ";" of its last segment taken off, the
\* query up to "#", and the fragment.
UrlParseAfter(scheme, netloc, after) ==
    LET path_end == FindAny(after, {"?", "#"}, 1)
        query_end == FindAny(after, {"#"}, 1)
        whole_path == SubSeq(after, 1, path_end - 1)
        semicolon ==
            IF scheme \in UsesParams
            THEN FindFrom(whole_path, ";", RFind(whole_path, "/") + 1)
            ELSE 0
    IN [ scheme |-> scheme, netloc |-> netloc,
         path |-> IF semicolon = 0 THEN whole_path
                  ELSE SubSeq(whole_path, 1, semicolon - 1),
         params |-> IF semicolon = 0 THEN <<>>
                    ELSE SubSeq(whole_path, semicolon + 1, Len(whole_path)),
         query |-> SubSeq(after, path_end + 1, query_end - 1),
         fragment |-> SubSeq(after, query_end + 1, Len(after)) ]

\* urlparse(url), from the netloc on: the netloc is what follows "//" up to
\* the next "/", "?" or "#".
UrlParseRest(scheme, rest) ==
    LET has_netloc == StartsWith(rest, <<"/", "/">>)
        netloc_end == FindAny(rest, {"/", "?", "#"}, 3)
    IN UrlParseAfter(scheme,
                     IF has_netloc THEN SubSeq(rest, 3, netloc_end - 1)
                     ELSE <<>>,
                     IF has_netloc THEN SubSeq(rest, netloc_end, Len(rest))
                     ELSE rest)

\* urlparse(url): the scheme is what precedes the first colon when it is
\* made of scheme characters and does not begin with a digit or a sign;
\* then the netloc, the path, the parameters, the query and the fragment.
UrlParse(url) ==
    LET colon == FindFrom(url, ":", 1)
        has_scheme ==
            /\ colon > 1
            /\ url[1] \in SchemeChars \ ({"+", "-", "."}
                                         \cup { DigitChars[d] : d \in 1..10 })
            /\ \A i \in 1..(colon - 1) : Lower(<<url[i]>>)[1] \in SchemeChars
    IN UrlParseRest(IF has_scheme THEN Lower(SubSeq(url, 1, colon - 1))
                    ELSE <<>>,
                    IF has_scheme THEN SubSeq(url, colon + 1, Len(url))
                    ELSE url)

\* ParseResult.geturl()
GetUrl(parsed) ==
    (IF parsed.scheme # <<>> THEN parsed.scheme \o <<":">> ELSE <<>>)
    \o (IF parsed.netloc # <<>> THEN <<"/", "/">> \o parsed.netloc ELSE <<>>)
    \o parsed.path
    \o (IF parsed.params # <<>> THEN <<";">> \o parsed.params ELSE <<>>)
    \o (IF parsed.query # <<>> THEN <<"?">> \o parsed.query ELSE <<>>)
    \o (IF parsed.fragment # <<>> THEN <<"#">> \o parsed.fragment ELSE <<>>)

\* ParseResult.port: the part of the netloc after its first colon, as a
\* number; None when it is absent or empty; ValueError when it is not made
\* of digits or is above 65535.
Port(netloc) ==
    LET colon == FindFrom(netloc, ":", 1)
        port == IF colon = 0 THEN <<>>
                ELSE SubSeq(netloc, colon + 1, Len(netloc))
    IN IF port = <<>> THEN [raises |-> FALSE, value |-> None]
       ELSE IF ~IsDigit(port) THEN [raises |-> TRUE, value |-> None]
       ELSE IF ToInt(port) > 65535 THEN [raises |-> TRUE, value |-> None]
       ELSE [raises |-> FALSE, value |-> Some(ToInt(port))]

\* urljoin(base, url): the reference absolute when it has a scheme, and
\* otherwise (a relative path, with no dot segment) put in the place of
\* what follows the last "/" of the path of the base.
UrlJoin(base, url) ==
    LET b == UrlParse(base)
        slash == RFind(b.path, "/")
    IN IF UrlParse(url).scheme # <<>> THEN url
       ELSE b.scheme \o <<":", "/", "/">> \o b.netloc
            \o (IF slash = 0 THEN <<"/">> ELSE SubSeq(b.path, 1, slash))
            \o url

\* Path(path).suffix: of the last component of the path, what begins at its
\* last dot, when that dot is neither its first nor its last character.
Suffix(path) ==
    LET name == SubSeq(path, RFind(path, "/") + 1, Len(path))
        dot == RFind(name, ".")
    IN IF dot > 1 /\ dot < Len(name) THEN SubSeq(name, dot, Len(name))
       ELSE <<>>

\* A variant of PROXYABLE_HLS_EXTENSIONS without ".ts".
ExtensionsWithoutTs ==
    { <<".", "m", "3", "u", "8">>, <<".", "a", "a", "c">>, <<".", "v", "t",
        "t">>, <<".", "m", "4", "s">>, <<".", "m", "4", "a">>, <<".", "m",
        "p", "4">>,
      <<".", "m", "p", "3">> }

PROXYABLE_HLS_EXTENSIONS ==
    { <<".", "m", "3", "u", "8">>, <<".", "t", "s">>, <<".", "a", "a", "c">>,
        <<".", "v", "t", "t">>, <<".", "m", "4", "s">>, <<".", "m", "4",
        "a">>, <<".", "m", "p", "4">>,
      <<".", "m", "p", "3">> }

\* _is_hls_path(path)
IsHlsPath(path) == Lower(Suffix(path)) \in PROXYABLE_HLS_EXTENSIONS

\* encrypt(value) and decrypt(token), as the tests of stream stand in for
\* them: the token is the value between "enc(" and ")".
Encrypt(value) == <<"e", "n", "c", "(">> \o value \o <<")">>

Decrypt(token) == SubSeq(token, 5, Len(token) - 1)

\* config.api_url
ApiUrl == <<"h", "t", "t", "p", ":", "/", "/", "a", "p", "i">>

\* ------------------------------------------------------------ stream

\* self._base_url
BaseUrl == <<"h", "t", "t", "p", "s", ":", "/", "/", "d", "l", "h", "d", ".",
    "d", "a", "d">>

\* The channel ids asked for.
ChannelIds == { <<"4", "2">> }

\* The stream pages: what the pattern `iframe src="(.*)" width` finds in
\* them.
StreamPages ==
    { <<>>, << <<"h", "t", "t", "p", "s", ":", "/", "/", "e", ".", "i", "o",
        "/", "w">> >>, << <<"h", "t", "t", "p", "s", ":", "/", "/", "e", ".",
        "i", "o", ":", "8", "/", "w">> >> }

\* The host of the auth bundle (b_host) that decode_bundle finds in the
\* iframe page.
GoodAuthHost == <<"h", "t", "t", "p", "s", ":", "/", "/", "a", ".", "i", "o",
    "/">>

\* The auth host of the test of a port that is not a number.
NotAPortHost ==
    <<"h", "t", "t", "p", "s", ":", "/", "/", "a", "u", "t", "h", ".", "e",
        "x", "a", "m", "p", "l", "e", ".", "c", "o", "m", ":", "n", "o", "t",
        "a", "p", "o", "r", "t", "/", "p", "a", "t", "h">>

AuthHosts ==
    { GoodAuthHost, NotAPortHost, <<>>, <<" ", "a", ".", "i", "o", " ", ":">>,
      <<"h", "t", "t", "p", "s", ":", "/", "/", " ", "a", ".", "i", "o", "/",
          "p">>,
      <<"h", "t", "t", "p", "s", ":", "/", "/", "a", ".", "i", "o", ":", "8",
          "0">>,
      <<"h", "t", "t", "p", "s", ":", "/", "/", "a", ".", "i", "o", ":">>,
      <<"h", "t", "t", "p", "s", ":", "/", "/", "a", ".", "i", "o", ":", ":",
          "x">>,
      <<"h", "t", "t", "p", "s", ":", "/", "/", "a", ".", "i", "o", ":", "x",
          ":", "y">>,
      <<"h", "t", "t", "p", "s", ":", "/", "/", "a", ".", "i", "o", ":", "x",
          ":", "1">>,
      <<"h", "t", "t", "p", "s", ":", "/", "/", "a", ".", "i", "o", ":", "9",
          "9", "9", "9", "9">> }

\* The iframe pages: what the pattern of CHANNEL_KEY finds in them, and the
\* host of their bundle.
IframePages ==
    { [keys |-> << <<"k">> >>, b_host |-> h] : h \in AuthHosts }
    \cup { [keys |-> <<>>, b_host |-> GoodAuthHost],
           [keys |-> << <<"j">>, <<"k">> >>, b_host |-> GoodAuthHost] }

\* The other fields of the bundle: b_ts, b_rnd and b_sig.
AuthTs == <<"1">>
AuthRnd == <<"r">>
AuthSig == <<"s">>

\* The status codes of the auth response.
AuthStatuses == {200, 204, 302, 403}

\* The keys the server lookup answers with.
ServerKeys ==
    { <<>>, <<" ", ":", "b", "a", "d">>, <<" ", "/", " ">>,
      <<"e", "d", "g", "e", "1", "/">>,
      <<"t", "o", "p", "1", "/", "c", "d", "n">>,
      <<"a", ".", "i", "o", "/", "x">> }

\* The server-lookup responses: the status code, and the body, of which
\* json() raises, or gives an object whose server_key is absent (None) or a
\* string.
LookupBodies ==
    { [status_code |-> 200, parses |-> FALSE, server_key |-> None],
      [status_code |-> 200, parses |-> TRUE, server_key |-> None],
      [status_code |-> 500, parses |-> FALSE, server_key |-> None],
      [status_code |-> 500, parses |-> TRUE,
       server_key |-> Some(<<"e", "d", "g", "e", "1", "/">>)] }
    \cup { [status_code |-> 200, parses |-> TRUE, server_key |-> Some(k)] :
             k \in ServerKeys }

\* A text from its lines, each ended by a line feed.
RECURSIVE Text(_)
Text(lines) ==
    IF lines = <<>> THEN <<>>
    ELSE Head(lines) \o <<"\n">> \o Text(Tail(lines))

\* The playlists the server answers with.
Playlists ==
    { Text(<< <<"#", "E", "X", "T", "M", "3", "U">>, <<"#", "E", "X", "T",
        "-", "X", "-", "K", "E", "Y", ":", "M", "E", "T", "H", "O", "D", "=",
        "A", "E", "S", "-", "1", "2", "8", ",", "U", "R", "I", "=", "\"",
        "e", "n", "c", ".", "k", "e", "y", "\"">>,
              <<"s", "e", "g", "m", "e", "n", "t", ".", "t", "s">> >>),
      Text(<< <<"#", "E", "X", "T", "-", "X", "-", "K", "E", "Y", ":", "U",
          "R", "I", "=", "\"", "h", "t", "t", "p", "s", ":", "/", "/", "c",
          ".", "i", "o", "/", "k", ".", "k", "e", "y", "\"">>, <<"#", "E",
          "X", "T", "I", "N", "F", ":", "4", ".", "0", ",">>,
              <<"h", "t", "t", "p", "s", ":", "/", "/", "c", ".", "i", "o",
                  "/", "v", ".", "t", "s">>, <<"h", "t", "t", "p", "s", ":",
                  "/", "/", "c", ".", "i", "o", "/", "t", ".", "p", "n",
                  "g">> >>),
      Text(<< <<"#", "E", "X", "T", "-", "X", "-", "M", "A", "P", ":", "U",
          "R", "I", "=", "\"", "i", "n", "i", "t", ".", "m", "p", "4",
          "\"">>, <<"h", "t", "t", "p", "s", ":", "/", "/", "c", ".", "i",
          "o", "/", "s", ".", "p", "h", "p", "?", "i", "d", "=", "1">> >>),
      Text(<< <<"#", "E", "X", "T", "-", "X", "-", "M", "E", "D", "I", "A",
          ":", "U", "R", "I", "=", "\"", "h", "t", "t", "p", "s", ":", "/",
          "/", "c", ".", "i", "o", "/", "a", ".", "m", "3", "u", "8", "\"">>,
              <<"h", "t", "t", "p", "s", ":", "/", "/", "c", ".", "i", "o",
                  "/", "s">> >>),
      Text(<< <<"#", "E", "X", "T", "-", "X", "-", "K", "E", "Y", ":", "M",
          "E", "T", "H", "O", "D", "=", "N", "O", "N", "E">>, <<"h", "t",
          "t", "p", "s", ":", "/", "/", "c", ".", "i", "o", "/", "v", ".",
          "t", "s">> >>),
      Text(<< <<"#", "E", "X", "T", "M", "3", "U">>, <<>>,
              <<"h", "t", "t", "p", "s", ":", "/", "/", "c", ".", "i", "o",
                  "/", "V", ".", "T", "S", "?", "x", "=", "1">>,
              <<"h", "t", "t", "p", "s", ":", "/", "/", "c", ".", "i", "o",
                  "/", "a", ".", "t", "x", "t", "?", "f", "=", "b", ".", "t",
                  "s">> >>),
      <<>>,
      <<"\n">>,
      <<"#", "E", "X", "T", "M", "3", "U", "\n", "s", ".", "t", "s">> }

\* The errors a fetch of stream raises.
FetchErrors == {"ConnectionError"}

\* What stream ends with: the text it returns, or the error it raises.
StreamReturns(text) == [ok |-> TRUE, error |-> "", text |-> text]

StreamRaises(error) == [ok |-> FALSE, error |-> error, text |-> <<>>]

\* A call of stream: where it is suspended, its locals, and the history of
\* it that the properties read (the fetches it issued, each with the number
\* of fetches that had returned when it was issued, the number of fetches
\* in flight, and the responses it got).
IdleResolution ==
    [ pc |-> "idle", channel_id |-> <<>>, fetches |-> <<>>,
      in_flight |-> 0, returned |-> 0, source_url |-> <<>>,
      key_matches |-> None, channel_key |-> <<>>, raw_auth_url |-> <<>>,
      auth_status |-> 0,
      lookup |-> None, server_url |-> <<>>, playlist |-> None,
      proxy_at_call |-> None, proxy_read |-> None,
      result |-> None ]

\* stream issues a fetch and awaits it.
Issue(r, step, url) ==
    [r EXCEPT !.pc = step,
              !.fetches = Append(@, [step |-> step, url |-> url,
                                     after |-> r.returned]),
              !.in_flight = @ + 1]

\* The fetch stream awaits has ended.
FetchEnded(r) == [r EXCEPT !.in_flight = @ - 1, !.returned = @ + 1]

\* stream ends.
StreamEnds(r, result) == [r EXCEPT !.pc = "done", !.result = Some(result)]

\* The URL of the stream page of a channel.
StreamPageUrl(channel_id) ==
    BaseUrl \o <<"/", "s", "t", "r", "e", "a", "m", "/", "s", "t", "r", "e",
        "a", "m", "-">> \o channel_id \o <<".", "p", "h", "p">>

\* A variant of AuthHost that takes the host as it is parsed.
AuthHostUnchecked(raw_auth_url) ==
    [error |-> "", parsed |-> UrlParse(RemoveSpace(Strip(raw_auth_url)))]

\* A variant of AuthHost that raises on a port that is not made of digits
\* instead of dropping it.
AuthHostKeepingPort(raw_auth_url) ==
    LET parsed == UrlParse(RemoveSpace(Strip(raw_auth_url)))
        port == Port(parsed.netloc)
    IN IF parsed.scheme = <<>> \/ parsed.netloc = <<>>
       THEN [error |-> "Invalid auth host: missing scheme or hostname",
             parsed |-> parsed]
       ELSE IF port.raises
       THEN [error |-> "Invalid auth host: port must be numeric",
             parsed |-> parsed]
       ELSE IF FindFrom(parsed.netloc, ":", 1) # 0 /\ port.value = None
       THEN [error |-> "Invalid auth host: missing port number",
             parsed |-> parsed]
       ELSE [error |-> "", parsed |-> parsed]

\* The checks of the auth host: the white space removed, the URL parsed, a
\* port that is not made of digits dropped from the netloc; the error
\* raised ("" for none) and the parsed URL.
AuthHost(raw_auth_url) ==
    LET auth_url == RemoveSpace(Strip(raw_auth_url))
        parsed == UrlParse(auth_url)
        colon == RFind(parsed.netloc, ":")
        host == SubSeq(parsed.netloc, 1, colon - 1)
        port_str == SubSeq(parsed.netloc, colon + 1, Len(parsed.netloc))
        netloc == IF colon # 0 /\ ~IsDigit(port_str) THEN host
                  ELSE parsed.netloc
        port == Port(netloc)
        stripped == [parsed EXCEPT !.netloc = netloc]
    IN IF parsed.scheme = <<>> \/ parsed.netloc = <<>>
       THEN [error |-> "Invalid auth host: missing scheme or hostname",
             parsed |-> parsed]
       ELSE IF port.raises
       THEN [error |-> "Invalid auth host: port must be numeric",
             parsed |-> stripped]
       ELSE IF FindFrom(netloc, ":", 1) # 0 /\ port.value = None
       THEN [error |-> "Invalid auth host: missing port number",
             parsed |-> stripped]
       ELSE [error |-> "", parsed |-> stripped]

\* auth_request_url
AuthRequestUrl(parsed_auth_url, channel_key) ==
    LET auth_base ==
            GetUrl([parsed_auth_url EXCEPT
                       !.path = IF @ = <<>> THEN <<"/">> ELSE @])
    IN UrlJoin(auth_base,
               <<"a", "u", "t", "h", ".", "p", "h", "p", "?", "c", "h", "a",
                   "n", "n", "e", "l", "_", "i", "d",
                   "=">> \o channel_key \o <<"&", "t", "s", "=">>
               \o AuthTs \o <<"&", "r", "n", "d", "=">> \o AuthRnd \o <<"&",
                   "s", "i", "g", "=">> \o AuthSig)

\* key_url: the server lookup, on the host of the iframe source.
KeyUrl(source_url, channel_key) ==
    LET key_url == UrlParse(source_url)
    IN key_url.scheme \o <<":", "/", "/">> \o key_url.netloc
       \o <<"/", "s", "e", "r", "v", "e", "r", "_", "l", "o", "o", "k", "u",
           "p", ".", "p", "h", "p", "?", "c", "h", "a", "n", "n", "e", "l",
           "_", "i", "d", "=">> \o channel_key

\* A variant of ServerUrl that does not look for a colon in the key.
ServerUrlAnyCharacters(raw_server_key, channel_key) ==
    IF raw_server_key = None \/ raw_server_key[1] = <<>>
    THEN [error |-> "No server key found in response", url |-> <<>>]
    ELSE LET server_key ==
                 RStrip(LStrip(Strip(raw_server_key[1]), {" ", "/"}),
                        {" ", "/"})
         IN IF server_key = <<>>
            THEN [error |-> "Invalid server key: missing scheme or hostname",
                  url |-> <<>>]
            ELSE [error |-> "",
                  url |-> UrlJoin(<<"h", "t", "t", "p", "s", ":", "/",
                      "/">> \o server_key
                                  \o <<"n", "e", "w", ".", "n", "e", "w",
                                      "k", "s", "o", ".", "r", "u", "/">>,
                                  server_key \o <<"/">> \o channel_key
                                  \o <<"/", "m", "o", "n", "o", ".", "m",
                                      "3", "u", "8">>)]

\* The checks of the server key and server_url: the error raised ("" for
\* none) and the URL of the playlist.
ServerUrl(raw_server_key, channel_key) ==
    IF raw_server_key = None \/ raw_server_key[1] = <<>>
    THEN [error |-> "No server key found in response", url |-> <<>>]
    ELSE LET cleaned_server_key == Strip(raw_server_key[1])
             server_key ==
                 RStrip(LStrip(cleaned_server_key, {" ", "/"}), {" ", "/"})
             playlist_path ==
                 server_key \o <<"/">> \o channel_key \o <<"/", "m", "o",
                     "n", "o", ".", "m", "3", "u", "8">>
             server_base == <<"h", "t", "t", "p", "s", ":", "/",
                 "/">> \o server_key \o <<"n", "e", "w", ".", "n", "e", "w",
                 "k", "s", "o", ".", "r", "u", "/">>
             parsed_server_base == UrlParse(server_base)
         IN IF FindFrom(cleaned_server_key, ":", 1) # 0
            THEN [error |->
                      "Invalid server key: unexpected characters in hostname",
                  url |-> <<>>]
            ELSE IF server_key = <<>>
            THEN [error |-> "Invalid server key: missing scheme or hostname",
                  url |-> <<>>]
            ELSE IF server_key = <<"t", "o", "p", "1", "/", "c", "d", "n">>
            THEN [error |-> "",
                  url |-> UrlJoin(<<"h", "t", "t", "p", "s", ":", "/", "/",
                      "t", "o", "p", "1", ".", "n", "e", "w", "k", "s", "o",
                      ".", "r", "u", "/">>, playlist_path)]
            ELSE IF parsed_server_base.scheme = <<>>
                    \/ parsed_server_base.netloc = <<>>
            THEN [error |-> "Invalid server key: missing scheme or hostname",
                  url |-> <<>>]
            ELSE [error |-> "",
                  url |-> UrlJoin(GetUrl(parsed_server_base), playlist_path)]

\* str.splitlines(), for the line feed.
RECURSIVE SplitLines(_)
SplitLines(text) ==
    IF text = <<>> THEN <<>>
    ELSE LET feed == FindFrom(text, "\n", 1)
         IN IF feed = 0 THEN <<text>>
            ELSE <<SubSeq(text, 1, feed - 1)>>
                 \o SplitLines(SubSeq(text, feed + 1, Len(text)))

\* "\n".join(lines)
RECURSIVE Join(_)
Join(lines) ==
    IF lines = <<>> THEN <<>>
    ELSE IF Len(lines) = 1 THEN lines[1]
    ELSE Head(lines) \o <<"\n">> \o Join(Tail(lines))

\* A variant of ProxyContent that gives the flag as it was when stream was
\* called.
ProxyContentAtCall == resolution.proxy_at_call[1]

\* config.proxy_content, as the loop reads it for a line.
ProxyContent == proxy_content

\* What the loop of stream over the lines of the playlist appends for one
\* line, or that it raises: re.search gives None for an #EXT-X-KEY line
\* without URI="...", and None has no group.
RewriteLine(line, source_url) ==
    IF StartsWith(line, <<"#", "E", "X", "T", "-", "X", "-", "K", "E", "Y",
        ":">>)
    THEN LET at == FindSub(line, <<"U", "R", "I", "=", "\"">>, 1)
             close == IF at = 0 THEN 0 ELSE FindFrom(line, "\"", at + 5)
             original_url == SubSeq(line, at + 5, close - 1)
         IN IF at = 0 \/ close = 0
            THEN [raises |-> TRUE, line |-> line]
            ELSE [raises |-> FALSE,
                  line |-> Replace(line, original_url,
                               ApiUrl \o <<"/", "k", "e", "y",
                                   "/">> \o Encrypt(original_url)
                               \o <<"/">>
                               \o Encrypt(UrlParse(source_url).netloc))]
    ELSE IF StartsWith(line, <<"h", "t", "t", "p">>)
    THEN LET path == Lower(UrlParse(line).path)
         IN IF IsHlsPath(path) \/ ProxyContent
            THEN [raises |-> FALSE,
                  line |-> ApiUrl \o <<"/", "c", "o", "n", "t", "e", "n",
                      "t", "/">> \o Encrypt(line)]
            ELSE [raises |-> FALSE, line |-> line]
    ELSE [raises |-> FALSE, line |-> line]

\* A variant of Rewritten that ends the text with its last line.
RewrittenUnterminated(text, source_url) ==
    LET lines == SplitLines(text)
        rewritten_lines ==
            [i \in 1..Len(lines) |-> RewriteLine(lines[i], source_url)]
    IN IF \E i \in 1..Len(lines) : rewritten_lines[i].raises
       THEN StreamRaises("AttributeError")
       ELSE StreamReturns(
                Join([i \in 1..Len(lines) |-> rewritten_lines[i].line]))

\* The end of stream, from the playlist on: the lines rewritten and joined,
\* or the error of the first line that raises.
Rewritten(text, source_url) ==
    LET lines == SplitLines(text)
        rewritten_lines ==
            [i \in 1..Len(lines) |-> RewriteLine(lines[i], source_url)]
    IN IF \E i \in 1..Len(lines) : rewritten_lines[i].raises
       THEN StreamRaises("AttributeError")
       ELSE StreamReturns(
                Join([i \in 1..Len(lines) |-> rewritten_lines[i].line])
                \o <<"\n">>)

\* stream from the return of the fetch of the stream page.
AfterPage(r, matches) ==
    IF matches # <<>>
    THEN Issue([r EXCEPT !.source_url = matches[1]], "iframe", matches[1])
    ELSE StreamEnds(r, StreamRaises("Failed to find source URL for channel"))

\* A variant of AfterIframe that issues the auth request and the server
\* lookup together.
AfterIframeFanOut(r, page) ==
    IF page.keys = <<>>
    THEN StreamEnds([r EXCEPT !.key_matches = Some(page.keys)],
                    StreamRaises("IndexError"))
    ELSE LET channel_key == page.keys[Len(page.keys)]
             auth == AuthHost(page.b_host)
             got == [r EXCEPT !.key_matches = Some(page.keys),
                              !.channel_key = channel_key,
                              !.raw_auth_url = page.b_host]
         IN IF auth.error # "" THEN StreamEnds(got, StreamRaises(auth.error))
            ELSE Issue(Issue(got, "auth",
                             AuthRequestUrl(auth.parsed, channel_key)),
                       "lookup", KeyUrl(r.source_url, channel_key))

\* stream from the return of the fetch of the iframe source: the last
\* CHANNEL_KEY of the page (an IndexError when there is none), the bundle,
\* the checks of the auth host, the auth request.
AfterIframe(r, page) ==
    IF page.keys = <<>>
    THEN StreamEnds([r EXCEPT !.key_matches = Some(page.keys)],
                    StreamRaises("IndexError"))
    ELSE LET channel_key == page.keys[Len(page.keys)]
             auth == AuthHost(page.b_host)
             got == [r EXCEPT !.key_matches = Some(page.keys),
                              !.channel_key = channel_key,
                              !.raw_auth_url = page.b_host]
         IN IF auth.error # "" THEN StreamEnds(got, StreamRaises(auth.error))
            ELSE Issue(got, "auth", AuthRequestUrl(auth.parsed, channel_key))

\* A variant of AfterAuth that takes the channel key from where the call run
\* beside this one left it, as if it were kept on the fetcher.
AfterAuthSharedKey(r, status_code) ==
    LET got == [r EXCEPT !.auth_status = status_code]
        channel_key == IF concurrent.channel_key # <<>>
                       THEN concurrent.channel_key
                       ELSE r.channel_key
    IN IF status_code # 200
       THEN StreamEnds(got, StreamRaises("Failed to get auth response"))
       ELSE Issue(got, "lookup", KeyUrl(r.source_url, channel_key))

\* A variant of AfterAuth that goes on with every status below 400.
AfterAuthBelow400(r, status_code) ==
    LET got == [r EXCEPT !.auth_status = status_code]
    IN IF status_code >= 400
       THEN StreamEnds(got, StreamRaises("Failed to get auth response"))
       ELSE Issue(got, "lookup", KeyUrl(r.source_url, r.channel_key))

\* stream from the return of the auth request.
AfterAuth(r, status_code) ==
    LET got == [r EXCEPT !.auth_status = status_code]
    IN IF status_code # 200
       THEN StreamEnds(got, StreamRaises("Failed to get auth response"))
       ELSE Issue(got, "lookup", KeyUrl(r.source_url, r.channel_key))

\* stream from the return of the server lookup.
AfterLookup(r, body) ==
    LET got == [r EXCEPT !.lookup = Some(body)]
        server == ServerUrl(body.server_key, r.channel_key)
    IN IF ~body.parses THEN StreamEnds(got, StreamRaises("JSONDecodeError"))
       ELSE IF server.error # ""
       THEN StreamEnds(got, StreamRaises(server.error))
       ELSE Issue([got EXCEPT !.server_url = server.url], "playlist",
                  server.url)

\* stream from the return of the fetch of the playlist.
AfterPlaylist(r, text) ==
    StreamEnds([r EXCEPT !.playlist = Some(text),
                         !.proxy_read = Some(proxy_content)],
               Rewritten(text, r.source_url))

\* A call of stream, up to its first await.
CallStream(channel_id) ==
    /\ resolution.pc \in {"idle", "done"}
    /\ resolution' = Issue([IdleResolution EXCEPT
                                !.channel_id = channel_id,
                                !.proxy_at_call = Some(proxy_content)],
                           "page", StreamPageUrl(channel_id))
    /\ UNCHANGED << proxy_content, concurrent, fetcherVars, namesVars,
                    settingsVars >>

PageReturns(matches) ==
    /\ resolution.pc = "page"
    /\ resolution' = AfterPage(FetchEnded(resolution), matches)
    /\ UNCHANGED << proxy_content, concurrent, fetcherVars, namesVars,
                    settingsVars >>

IframeReturns(page) ==
    /\ resolution.pc = "iframe"
    /\ resolution' = AfterIframe(FetchEnded(resolution), page)
    /\ UNCHANGED << proxy_content, concurrent, fetcherVars, namesVars,
                    settingsVars >>

AuthReturns(status_code) ==
    /\ resolution.pc = "auth"
    /\ resolution' = AfterAuth(FetchEnded(resolution), status_code)
    /\ UNCHANGED << proxy_content, concurrent, fetcherVars, namesVars,
                    settingsVars >>

LookupReturns(body) ==
    /\ resolution.pc = "lookup"
    /\ resolution' = AfterLookup(FetchEnded(resolution), body)
    /\ UNCHANGED << proxy_content, concurrent, fetcherVars, namesVars,
                    settingsVars >>

PlaylistReturns(text) ==
    /\ resolution.pc = "playlist"
    /\ resolution' = AfterPlaylist(FetchEnded(resolution), text)
    /\ UNCHANGED << proxy_content, concurrent, fetcherVars, namesVars,
                    settingsVars >>

\* What the second call of stream, of channel 7, gets from its fetches: an
\* iframe source, a channel key, an auth host and a server key of its own.
SecondChannelId == <<"7">>

SecondPage == << <<"h", "t", "t", "p", "s", ":", "/", "/", "f", ".", "i",
    "o", "/", "w">> >>

SecondIframePage ==
    [keys |-> << <<"j">> >>,
     b_host |-> <<"h", "t", "t", "p", "s", ":", "/", "/", "b", ".", "i", "o",
         "/">>]

SecondLookupBody ==
    [status_code |-> 200, parses |-> TRUE,
     server_key |-> Some(<<"e", "d", "g", "e", "2">>)]

SecondPlaylist == <<"s", ".", "t", "s", "\n">>

\* A step of the second call of stream, from its call to its return: the
\* same code as the first, run on the same fetcher between the steps of the
\* first.
ConcurrentStream ==
    /\ concurrent.pc # "done"
    /\ concurrent' =
          CASE concurrent.pc = "idle" ->
                   Issue([IdleResolution EXCEPT
                             !.channel_id = SecondChannelId,
                             !.proxy_at_call = Some(proxy_content)],
                         "page", StreamPageUrl(SecondChannelId))
            [] concurrent.pc = "page" ->
                   AfterPage(FetchEnded(concurrent), SecondPage)
            [] concurrent.pc = "iframe" ->
                   AfterIframe(FetchEnded(concurrent), SecondIframePage)
            [] concurrent.pc = "auth" ->
                   AfterAuth(FetchEnded(concurrent), 200)
            [] concurrent.pc = "lookup" ->
                   AfterLookup(FetchEnded(concurrent), SecondLookupBody)
            [] concurrent.pc = "playlist" ->
                   AfterPlaylist(FetchEnded(concurrent), SecondPlaylist)
    /\ UNCHANGED << proxy_content, resolution, fetcherVars, namesVars,
                    settingsVars >>

\* config.proxy_content is set, as monkeypatch.setattr(config,
\* "proxy_content", value) sets it: at any time, a call of stream suspended
\* at an await or none under way.
SetProxyContent(value) ==
    /\ proxy_content # value
    /\ proxy_content' = value
    /\ UNCHANGED << resolution, concurrent, fetcherVars, namesVars,
                    settingsVars >>

\* The fetch stream awaits raises: stream catches nothing.
FetchRaises(error) ==
    /\ resolution.pc \in {"page", "iframe", "auth", "lookup", "playlist"}
    /\ resolution' = StreamEnds(FetchEnded(resolution), StreamRaises(error))
    /\ UNCHANGED << proxy_content, concurrent, fetcherVars, namesVars,
                    settingsVars >>

\* -------------------------------------------- _enumerate_duplicate_names

\* The longest list of channels tried.
MaxBatch == 4

\* The names of the channels tried: two plain names, and a name that has
\* the form the renaming gives.
BatchNames == { <<"A">>, <<"B">>, <<"A", " ", "(", "1", ")">> }

\* The lists of channels tried: every list of at most MaxBatch channels with
\* these names, the id of a channel being its position.
RECURSIVE ListsOfNames(_)
ListsOfNames(n) ==
    IF n = 0 THEN { <<>> }
    ELSE LET shorter == ListsOfNames(n - 1)
         IN shorter \cup
            { Append(l, Channel(Str(Len(l) + 1), name)) :
                l \in {x \in shorter : Len(x) = n - 1}, name \in BatchNames }

Batches == ListsOfNames(MaxBatch)

\* A call of _enumerate_duplicate_names: it has no await, and renames the
\* channels of the list in place.
EnumerateNames ==
    /\ ~enumerated
    /\ enumerating' = EnumerateDuplicateNames(enumerating)
    /\ enumerated' = TRUE
    /\ UNCHANGED << given, fetcherVars, streamVars, settingsVars >>

\* ----------------------------------------------------------- settings

\* The values of PUBLIC_URL and API_URL in the environment ("" is a
\* variable that is not set).
Environments ==
    { [PUBLIC_URL |-> <<>>, API_URL |-> <<>>],
      [PUBLIC_URL |-> <<"h", "t", "t", "p", "s", ":", "/", "/", "p", "r",
          "o", "x", "y", ".", "t", "e", "s", "t", "/", "a", "p", "p", "/">>,
          API_URL |-> <<>>],
      [PUBLIC_URL |-> <<"n", "o", "t", " ", "a", " ", "u", "r", "l">>,
          API_URL |-> <<"h", "t", "t", "p", "s", ":", "/", "/", "b", ".",
          "i", "o">>],
      [PUBLIC_URL |-> <<>>, API_URL |-> <<"h", "t", "t", "p", "s", ":", "/",
          "/", "b", ".", "i", "o">>],
      [PUBLIC_URL |-> <<" ">>, API_URL |-> <<>>] }

\* What json.loads gives for a settings file without "public_url".
EmptySettings == [public_url |-> None, others |-> FALSE]

\* A value stored under "public_url": a string, or a value of another type.
StoredText(text) == [is_str |-> TRUE, text |-> text]

StoredNumber == [is_str |-> FALSE, text |-> <<>>]

\* The settings file: absent, not JSON, JSON that is no object, or an
\* object with or without "public_url" and with or without other keys.
NoFile == [kind |-> "absent", data |-> EmptySettings]

FileOf(data) == [kind |-> "dict", data |-> data]

SettingsFiles ==
    { NoFile, [kind |-> "invalid", data |-> EmptySettings],
      [kind |-> "list", data |-> EmptySettings],
      FileOf([public_url |-> None, others |-> TRUE]) }
    \cup { FileOf([public_url |-> Some(v), others |-> FALSE]) :
             v \in { StoredText(<<"h", "t", "t", "p", "s", ":", "/", "/",
                 "s", ".", "i", "o", "/", "x", "/">>),
                     StoredText(<<"f", "t", "p", ":", "/", "/", "s", ".",
                         "i", "o">>), StoredText(<<" ">>),
                     StoredNumber } }

\* The URLs submitted to set_public_url.
SubmittedUrls ==
    { <<>>, <<"h", "t", "t", "p", "s", ":", "/", "/", "e", "x", "a", "m",
        "p", "l", "e", ".", "c", "o", "m", "/", "t", "v", "/">>, <<"e", "x",
        "a", "m", "p", "l", "e", ".", "c", "o", "m">>, <<"n", "o", "t", " ",
        "a", " ", "u", "r", "l">>,
      <<"f", "t", "p", ":", "/", "/", "x", ".", "i", "o">>, <<"h", "t", "t",
          "p", "s", ":", "/", "/", "x", ".", "i", "o", "/", "?", "q", "=",
          "1">>, <<"h", "t", "t", "p", "s", ":", "/", "/", "x", ".", "i",
          "o", "/", "#", "f">>,
      <<"h", "t", "t", "p", "s", ":", "/", "/", "x", ".", "i", "o", "/", "p",
          ";", "x">>, <<"h", "t", "t", "p", "s", ":", "/", "/", "/", "p">>,
          <<"h", "t", "t", "p", "s", ":", "/", "/", ":", "8", "0">>,
      <<" ", "h", "t", "t", "p", "s", ":", "/", "/", "x", ".", "i", "o",
          " ">> }

\* A variant of NormalizeUrl that accepts every URL as it is.
NormalizeUrlLenient(value) == [raises |-> FALSE, url |-> Strip(value)]

\* _normalize_url(value): that it raises ValueError, or the URL it returns.
NormalizeUrl(value) ==
    LET stripped == Strip(value)
        raw == IF FindSub(stripped, <<":", "/", "/">>, 1) = 0
               THEN <<"h", "t", "t", "p", "s", ":", "/",
                   "/">> \o stripped ELSE stripped
        parsed == UrlParse(raw)
        scheme == IF parsed.scheme = <<>> THEN <<"h", "t", "t", "p",
            "s">> ELSE parsed.scheme
        netloc == parsed.netloc
        path == RStrip(parsed.path, {"/"})
        hostname == Hostname(parsed)
    IN IF stripped = <<>> THEN [raises |-> FALSE, url |-> <<>>]
       ELSE IF \E i \in 1..Len(stripped) : stripped[i] = " "
       THEN [raises |-> TRUE, url |-> <<>>]
       ELSE IF netloc = <<>> \/ hostname = <<>>
       THEN [raises |-> TRUE, url |-> <<>>]
       ELSE IF scheme \notin { <<"h", "t", "t", "p">>, <<"h", "t", "t", "p",
           "s">> }
       THEN [raises |-> TRUE, url |-> <<>>]
       ELSE IF parsed.params # <<>> \/ parsed.query # <<>>
               \/ parsed.fragment # <<>>
       THEN [raises |-> TRUE, url |-> <<>>]
       ELSE [raises |-> FALSE,
             url |-> scheme \o <<":", "/", "/">> \o netloc
                     \o (IF path # <<>> /\ ~StartsWith(path, <<"/">>)
                         THEN <<"/">> \o path ELSE path)]

\* DEFAULT_API_URL: config.api_url as the module finds it when imported.
DEFAULT_API_URL == <<"h", "t", "t", "p", ":", "/", "/", "l", "o", "c", "a",
    "l", "h", "o", "s", "t", ":", "8", "0", "0", "0">>

\* _load_settings(): the object in the file, the empty one when the file
\* is absent, is not JSON or holds no object.
LoadSettings(file) ==
    IF file.kind = "dict" THEN file.data ELSE EmptySettings

\* _env_public_url()
EnvPublicUrl(env) ==
    LET raw == IF env.PUBLIC_URL # <<>> THEN env.PUBLIC_URL ELSE env.API_URL
    IN IF raw = <<>> THEN [raises |-> FALSE, url |-> <<>>]
       ELSE NormalizeUrl(raw)

\* _stored_public_url()
StoredPublicUrl(file) ==
    LET data == LoadSettings(file)
    IN IF data.public_url = None THEN [raises |-> FALSE, url |-> <<>>]
       ELSE IF ~data.public_url[1].is_str
               \/ Strip(data.public_url[1].text) = <<>>
       THEN [raises |-> FALSE, url |-> <<>>]
       ELSE NormalizeUrl(data.public_url[1].text)

\* A variant of ResolvePublicUrl that asks the settings file first.
ResolveStoredFirst(env, file) ==
    IF ~StoredPublicUrl(file).raises /\ StoredPublicUrl(file).url # <<>>
    THEN StoredPublicUrl(file).url
    ELSE IF ~EnvPublicUrl(env).raises /\ EnvPublicUrl(env).url # <<>>
    THEN EnvPublicUrl(env).url
    ELSE DEFAULT_API_URL

\* resolve_public_url(): the URL of the environment, else the stored one,
\* else the default; a resolver that raises or gives "" is passed over.
ResolvePublicUrl(env, file) ==
    IF ~EnvPublicUrl(env).raises /\ EnvPublicUrl(env).url # <<>>
    THEN EnvPublicUrl(env).url
    ELSE IF ~StoredPublicUrl(file).raises /\ StoredPublicUrl(file).url # <<>>
    THEN StoredPublicUrl(file).url
    ELSE DEFAULT_API_URL

\* No call of the settings module so far.
NoSettingsCall ==
    [op |-> "none", url |-> <<>>, raised |-> "", file_before |-> NoFile,
     api_url_before |-> <<>>]

SettingsCall(op, url, raised) ==
    [op |-> op, url |-> url, raised |-> raised,
     file_before |-> settings_file, api_url_before |-> api_url]

\* apply_initial_settings()
ApplyInitialSettings ==
    /\ api_url' = ResolvePublicUrl(environ, settings_file)
    /\ settings_call' = SettingsCall("apply_initial_settings", <<>>, "")
    /\ UNCHANGED << environ, settings_file, fetcherVars, namesVars,
                    streamVars >>

\* set_public_url(url): the URL normalised (a ValueError leaves the call),
\* stored in the object of the file or taken out of it, the file written
\* (writable says whether it can be; an OSError leaves the call when not),
\* config.api_url resolved again.
SetPublicUrl(url, writable) ==
    LET normalised == NormalizeUrl(url)
        data == LoadSettings(settings_file)
        saved == FileOf([data EXCEPT !.public_url =
                             IF normalised.url # <<>>
                             THEN Some(StoredText(normalised.url))
                             ELSE None])
    IN /\ IF normalised.raises
          THEN /\ settings_call' =
                      SettingsCall("set_public_url", url, "ValueError")
               /\ UNCHANGED << settings_file, api_url >>
          ELSE IF ~writable
          THEN /\ settings_call' =
                      SettingsCall("set_public_url", url, "OSError")
               /\ UNCHANGED << settings_file, api_url >>
          ELSE /\ settings_file' = saved
               /\ api_url' = ResolvePublicUrl(environ, saved)
               /\ settings_call' = SettingsCall("set_public_url", url, "")
       /\ UNCHANGED << environ, fetcherVars, namesVars, streamVars >>

\* StepDaddy(): the solver URL is the configured one (set or empty), the
\* jar and the channel list are empty, no transport is recorded.
FetcherInit ==
    /\ now = 0
    /\ cookies = <<>>
    /\ config_flaresolverr_url \in {"", SolverUrl}
    /\ self_flaresolverr_url = config_flaresolverr_url
    /\ last_transport_mode = None
    /\ channels = <<>>
    /\ task = [t \in Tasks |-> Idle]
    /\ ended = None
    /\ observed = [channels |-> <<>>, loading |-> {}]
    /\ stored = {}
    /\ calls = 0

\* No list is being renamed.
NamesIdle ==
    /\ given = <<>>
    /\ enumerating = <<>>
    /\ enumerated = TRUE

\* No call of stream is under way.
StreamIdle ==
    /\ proxy_content = TRUE
    /\ resolution = IdleResolution
    /\ concurrent = IdleResolution

\* The settings module is imported and not called: the environment has no
\* URL, there is no settings file, config.api_url is the default.
SettingsIdle ==
    /\ environ = [PUBLIC_URL |-> <<>>, API_URL |-> <<>>]
    /\ settings_file = NoFile
    /\ api_url = DEFAULT_API_URL
    /\ settings_call = NoSettingsCall

Init == FetcherInit /\ NamesIdle /\ StreamIdle /\ SettingsIdle

\* The fetcher with one caller: task 1 runs the calls one after another,
\* each awaited before the next starts.
Next ==
    \/ \E url \in Urls : CallGet(1, url)
    \/ \E url \in Urls : CallFlaresolverrGet(1, url)
    \/ \E error \in TransportErrors : DirectRaises(1, error)
    \/ \E status_code \in DirectStatuses :
          DirectReturns(1, status_code, NoText)
    \/ \E reply \in SolverFailures \cup SolverSuccesses({NoText}) :
          SolverAnswers(1, reply)
    \/ Tick

Spec == Init /\ [][Next]_vars

\* The directory: the tasks run load_channels, any number at a time, while
\* readers take the channel list.
DirectoryStatuses == {200, 403, 500}

DirectoryReplies ==
    { Reply("Timeout", 0, FALSE, Envelope("", "", NoSolution)),
      Reply("", 500, TRUE, Envelope("ok", "", NoSolution)) }
    \cup
    { Reply("", 200, TRUE, Envelope("ok", "", Solution(st, h, text))) :
        st \in {Some(200), Some(500)},
        h \in { <<>>,
                << [key |-> "Set-Cookie",
                    value |-> << [max_age |-> "", expires |-> "",
                                  domain |-> <<>>] >>] >> },
        text \in Pages }

NextDirectory ==
    \/ \E t \in Tasks : CallLoadChannels(t)
    \/ \E t \in Tasks : DirectRaises(t, "Timeout")
    \/ \E t \in Tasks, status_code \in DirectoryStatuses, text \in Pages :
          DirectReturns(t, status_code, text)
    \/ \E t \in Tasks, reply \in DirectoryReplies : SolverAnswers(t, reply)
    \/ ReadChannels

SpecDirectory == Init /\ [][NextDirectory]_vars

\* _enumerate_duplicate_names, called with each of the lists.
InitNames ==
    /\ FetcherInit
    /\ StreamIdle
    /\ SettingsIdle
    /\ given \in Batches
    /\ enumerating = given
    /\ enumerated = FALSE

NextNames == EnumerateNames

SpecNames == InitNames /\ [][NextNames]_vars

\* stream: one call after another, under either value of
\* config.proxy_content.
InitStream ==
    /\ FetcherInit
    /\ NamesIdle
    /\ SettingsIdle
    /\ proxy_content \in BOOLEAN
    /\ resolution = IdleResolution
    /\ concurrent = IdleResolution

NextStream ==
    \/ \E channel_id \in ChannelIds : CallStream(channel_id)
    \/ \E matches \in StreamPages : PageReturns(matches)
    \/ \E page \in IframePages : IframeReturns(page)
    \/ \E status_code \in AuthStatuses : AuthReturns(status_code)
    \/ \E body \in LookupBodies : LookupReturns(body)
    \/ \E text \in Playlists : PlaylistReturns(text)
    \/ \E error \in FetchErrors : FetchRaises(error)

SpecStream == InitStream /\ [][NextStream]_vars

\* stream while config.proxy_content is set and reset between its steps.
NextStreamFlag ==
    \/ NextStream
    \/ \E value \in BOOLEAN : SetProxyContent(value)

SpecStreamFlag == InitStream /\ [][NextStreamFlag]_vars

\* Two calls of stream on one fetcher, their steps interleaved; the fetcher
\* holds a channel list, or none.
InitConcurrent ==
    /\ now = 0
    /\ cookies = <<>>
    /\ config_flaresolverr_url = ""
    /\ self_flaresolverr_url = config_flaresolverr_url
    /\ last_transport_mode = None
    /\ channels \in {<<>>, << Channel(<<"4", "2">>, <<"A">>),
                              Channel(<<"7">>, <<"B">>) >>}
    /\ task = [t \in Tasks |-> Idle]
    /\ ended = None
    /\ observed = [channels |-> <<>>, loading |-> {}]
    /\ stored = {}
    /\ calls = 0
    /\ NamesIdle
    /\ SettingsIdle
    /\ StreamIdle

NextConcurrent ==
    \/ NextStream
    \/ ConcurrentStream

SpecConcurrent == InitConcurrent /\ [][NextConcurrent]_vars

\* The settings module: imported under each environment and settings file,
\* then called any number of times.
InitSettings ==
    /\ FetcherInit
    /\ NamesIdle
    /\ StreamIdle
    /\ environ \in Environments
    /\ settings_file \in SettingsFiles
    /\ api_url = DEFAULT_API_URL
    /\ settings_call = NoSettingsCall

NextSettings ==
    \/ ApplyInitialSettings
    \/ \E url \in SubmittedUrls, writable \in BOOLEAN :
          SetPublicUrl(url, writable)

SpecSettings == InitSettings /\ [][NextSettings]_vars


\* --------------------------------------------------- what the claims read

\* The calls of _get under way, and the one that ended last.
GetCalls == {"get", "load"}

GetsUnderWay == { t \in Tasks : task[t].call \in GetCalls }

GetEnded == ended # None /\ ended[1].call \in GetCalls

\* A solver endpoint is configured.
Configured == self_flaresolverr_url # "" \/ config_flaresolverr_url # ""

\* The host name of the URL is in the protected domain set: it ends with
\* dlhd.dad.
Protects(url) == EndsWith(Hostname(url), DLHD_DAD)

\* The cookies of a jar that are for a host name: those with no domain, or
\* with a domain (leading dots dropped, lower-cased) the host name ends with.
CookiesFor(jar, hostname) ==
    { i \in 1..Len(jar) :
        LET domain == Lower(LStrip(jar[i].domain, {"."}))
        IN domain = <<>> \/ EndsWith(hostname, domain) }

ValidCookieAt(jar, hostname, t) ==
    \E i \in CookiesFor(jar, hostname) :
        jar[i].expires = None \/ jar[i].expires[1] > t

\* The solver endpoint answered with a solution.
Solved(answer) ==
    /\ answer.raised = ""
    /\ answer.status_code < 400
    /\ answer.parses
    /\ answer.status = "ok"

\* ------------------------------------------------------------------ claims

\* C1: the first request of a call of _get goes by the solver if and only
\* if, when the call started, a solver endpoint was configured, the host
\* name of the URL is protected (ends with dlhd.dad) and the jar held no
\* valid cookie for that host name; in every other case it is direct.
C1_FirstRequestBySolverIffAllThree ==
    \A t \in GetsUnderWay :
        LET tk == task[t]
            st == tk.start[1]
            all_three ==
                /\ st.solver # ""
                /\ Protects(tk.url)
                /\ ~ValidCookieAt(st.cookies, Hostname(tk.url), st.now)
        IN /\ Len(tk.requests) >= 1
           /\ tk.requests[1].url = tk.url
           /\ tk.requests[1].via = (IF all_three THEN "solver" ELSE "direct")

\* A call to a protected host goes by the solver although the jar holds
\* cookies: none of them is valid for the host.
C1_Witness ==
    \E t \in GetsUnderWay :
        /\ task[t].requests[1].via = "solver"
        /\ task[t].start[1].cookies # <<>>

\* C2: when the direct request of a fetch returns 401 or 403, a solver is
\* configured and the host is protected, the fetch sends exactly one solver
\* request, for the same URL, and what it returns is the solver's response
\* (which it returns whenever the solver gives one), never the 401 or 403
\* response.
C2_RetryOnceBySolver ==
    /\ \A t \in GetsUnderWay :
          LET tk == task[t]
          IN (/\ tk.direct_status \in {Some(401), Some(403)}
              /\ Configured
              /\ Protects(tk.url))
             => tk.requests = << Request("direct", tk.url),
                                 Request("solver", tk.url) >>
    /\ GetEnded =>
          LET tk == ended[1]
          IN (/\ tk.direct_status \in {Some(401), Some(403)}
              /\ Configured
              /\ Protects(tk.url))
             => /\ tk.requests = << Request("direct", tk.url),
                                    Request("solver", tk.url) >>
                /\ tk.solver_reply # None
                /\ tk.result[1].ok => tk.result[1].response.via = "solver"
                /\ Solved(tk.solver_reply[1]) => tk.result[1].ok

\* A fetch whose direct request returned 401 has returned the response of
\* the solver.
C2_Witness ==
    /\ GetEnded
    /\ ended[1].direct_status = Some(401)
    /\ ended[1].result[1].ok
    /\ ended[1].result[1].response.via = "solver"

\* C3: a fetch sends at most two requests, at most one of each transport: a
\* solver request is the last one, and a solver request follows a direct
\* one only when the direct response was 401 or 403, a solver is configured
\* and the host is protected.
C3_AtMostTwoRequests ==
    \A tk \in { task[t] : t \in GetsUnderWay }
              \cup (IF GetEnded THEN {ended[1]} ELSE {}) :
        /\ Len(tk.requests) \in {1, 2}
        /\ tk.requests[1].via = "solver" => Len(tk.requests) = 1
        /\ Len(tk.requests) = 2 =>
              /\ tk.requests[1].via = "direct"
              /\ tk.requests[2].via = "solver"
              /\ tk.direct_status \in {Some(401), Some(403)}
              /\ Configured
              /\ Protects(tk.url)

\* A fetch from a protected host, with a solver configured, ended after its
\* one direct request, whose response was an error other than 401 and 403.
C3_Witness ==
    /\ GetEnded
    /\ Configured
    /\ Protects(ended[1].url)
    /\ ended[1].direct_status = Some(500)
    /\ Len(ended[1].requests) = 1

\* C4: whatever the status code of the final response, direct or the
\* solver's solution, the fetch returns that response; a fetch fails only
\* when a request of it failed.
C4_FinalResponseReturned ==
    GetEnded =>
        LET tk == ended[1]
            final == tk.requests[Len(tk.requests)]
            res == tk.result[1]
        IN /\ (final.via = "direct" /\ tk.direct_status # None) =>
                 /\ res.ok
                 /\ res.response.via = "direct"
                 /\ res.response.status_code = tk.direct_status[1]
           /\ (final.via = "solver" /\ tk.solver_reply # None
               /\ Solved(tk.solver_reply[1])) =>
                 /\ res.ok
                 /\ res.response.via = "solver"
                 /\ res.response.status_code =
                       (IF tk.solver_reply[1].solution_status = None THEN 0
                        ELSE tk.solver_reply[1].solution_status[1])
           /\ ~res.ok =>
                 \/ tk.direct_error # ""
                 \/ tk.solver_reply # None /\ ~Solved(tk.solver_reply[1])

\* A fetch has returned the solver's response with status 403.
C4_Witness ==
    /\ GetEnded
    /\ ended[1].result[1].ok
    /\ ended[1].result[1].response.via = "solver"
    /\ ended[1].result[1].response.status_code = 403

\* C5: a fetch to a protected host started while the jar holds no valid
\* cookie for it goes by the solver; once a solver response has stored a
\* cookie with a positive Max-Age n for a domain, at time s, every fetch to
\* a host of that domain started later and before s + n sends its first
\* request directly, and a solver request only after a 401 or 403 response.
C5_StoredCookieKeepsFetchesDirect ==
    \A t \in GetsUnderWay :
        LET tk == task[t]
            st == tk.start[1]
            hostname == Hostname(tk.url)
            fresh ==
                { g \in st.stored :
                    /\ g.max_age > 0
                    /\ EndsWith(hostname, Lower(LStrip(g.domain, {"."})))
                    /\ st.now < g.at + g.max_age }
        IN /\ (/\ st.solver # ""
               /\ Protects(tk.url)
               /\ ~ValidCookieAt(st.cookies, hostname, st.now))
              => tk.requests[1].via = "solver"
           /\ fresh # {} =>
                 /\ tk.requests[1].via = "direct"
                 /\ Len(tk.requests) > 1 =>
                       tk.direct_status \in {Some(401), Some(403)}

\* A fetch to a protected host, with a solver configured, goes directly: it
\* started a second after a cookie with Max-Age 2 was stored for its domain.
C5_Witness ==
    \E t \in GetsUnderWay :
        /\ task[t].start[1].solver # ""
        /\ Protects(task[t].url)
        /\ task[t].requests[1].via = "direct"
        /\ \E g \in task[t].start[1].stored :
              /\ g.max_age = 2
              /\ EndsWith(Hostname(task[t].url),
                          Lower(LStrip(g.domain, {"."})))
              /\ task[t].start[1].now = g.at + 1

\* C6: at the time a fetch starts, a cookie without expiry is valid, and a
\* cookie with expiry e is valid exactly when e > now.  So a fetch to a
\* protected host (a solver being configured) goes directly when the jar
\* holds, for the host, a cookie without expiry or one with e > now, and by
\* the solver when every cookie for the host has e <= now.
C6_ValidWhileExpiryAfterNow ==
    \A t \in GetsUnderWay :
        LET tk == task[t]
            st == tk.start[1]
            for_host == CookiesFor(st.cookies, Hostname(tk.url))
        IN (st.solver # "" /\ Protects(tk.url)) =>
              /\ (\E i \in for_host : st.cookies[i].expires = None)
                 => tk.requests[1].via = "direct"
              /\ (\E i \in for_host :
                     /\ st.cookies[i].expires # None
                     /\ st.cookies[i].expires[1] > st.now)
                 => tk.requests[1].via = "direct"
              /\ (\A i \in for_host :
                     /\ st.cookies[i].expires # None
                     /\ st.cookies[i].expires[1] <= st.now)
                 => tk.requests[1].via = "solver"

\* A fetch goes by the solver at the very second the last cookie for its
\* host expires.
C6_Witness ==
    \E t \in GetsUnderWay :
        LET st == task[t].start[1]
        IN /\ task[t].requests[1].via = "solver"
           /\ \E i \in CookiesFor(st.cookies, Hostname(task[t].url)) :
                 st.cookies[i].expires = Some(st.now)
           /\ st.now > 0

\* C7: the solver client fails, with no response, when no endpoint is
\* configured (and then sends nothing), when the endpoint answers with a
\* status of 400 or more, when the body does not parse, and when the
\* envelope's status is not "ok"; it returns a response only when none of
\* these holds, and then it does unless the request itself raised.
C7_SolverClientFails ==
    (ended # None /\ ended[1].call = "solve") =>
        LET tk == ended[1]
            res == tk.result[1]
        IN /\ ~Configured => (~res.ok /\ tk.requests = <<>>)
           /\ tk.solver_reply # None =>
                 LET answer == tk.solver_reply[1]
                 IN /\ answer.status_code >= 400 => ~res.ok
                    /\ ~answer.parses => ~res.ok
                    /\ answer.status # "ok" => ~res.ok
                    /\ (/\ answer.raised = ""
                        /\ answer.status_code < 400
                        /\ answer.parses
                        /\ answer.status = "ok") => res.ok
           /\ res.ok =>
                 /\ Configured
                 /\ tk.solver_reply # None
                 /\ tk.solver_reply[1].status_code < 400
                 /\ tk.solver_reply[1].parses
                 /\ tk.solver_reply[1].status = "ok"
           /\ ~res.ok => res.response = NoResponse

\* The solver client has failed on an answer with HTTP status 500 whose body
\* is an envelope with status "ok".
C7_Witness ==
    /\ ended # None
    /\ ended[1].call = "solve"
    /\ ended[1].solver_reply # None
    /\ ended[1].solver_reply[1].status_code = 500
    /\ ended[1].solver_reply[1].parses
    /\ ended[1].solver_reply[1].status = "ok"
    /\ ~ended[1].result[1].ok

\* C8: when the first request of a fetch raises (the direct request, or the
\* POST to the solver), the fetch fails with that error and has sent no
\* other request.
C8_FirstFailurePropagates ==
    GetEnded =>
        LET tk == ended[1]
            res == tk.result[1]
        IN /\ tk.direct_error # "" =>
                 /\ ~res.ok
                 /\ res.error = tk.direct_error
                 /\ tk.requests = << Request("direct", tk.url) >>
           /\ (/\ tk.requests[1].via = "solver"
               /\ tk.solver_reply # None
               /\ tk.solver_reply[1].raised # "") =>
                 /\ ~res.ok
                 /\ res.error = tk.solver_reply[1].raised
                 /\ tk.requests = << Request("solver", tk.url) >>

\* A fetch whose first request, by the solver, timed out has failed with the
\* timeout.
C8_Witness ==
    /\ GetEnded
    /\ ended[1].requests[1].via = "solver"
    /\ ended[1].solver_reply # None
    /\ ended[1].solver_reply[1].raised = "Timeout"
    /\ ended[1].result[1].error = "Timeout"

\* The status code of the response the _get of an ended call got last.
FinalStatus(tk) ==
    IF tk.requests[Len(tk.requests)].via = "direct" THEN tk.direct_status[1]
    ELSE IF tk.solver_reply[1].solution_status = None THEN 0
    ELSE tk.solver_reply[1].solution_status[1]

\* The _get of an ended call raised: its direct request did, or the solver
\* client failed.
FetchRaised(tk) ==
    \/ tk.direct_error # ""
    \/ tk.solver_reply # None /\ ~Solved(tk.solver_reply[1])

\* C9: when load_channels fails, because its fetch raises or returns a status
\* of 400 or more, the error is raised to the caller and the channel list is
\* empty once the call has ended, whatever it held when the call started.
C9_FailedLoadEmptiesList ==
    (ended # None /\ ended[1].call = "load") =>
        LET tk == ended[1]
            res == tk.result[1]
        IN /\ FetchRaised(tk) =>
                 /\ ~res.ok
                 /\ res.error \in TransportErrors
                        \cup { "Flaresolverr request failed with HTTP",
                               "Invalid Flaresolverr response", "boom",
                               "Unknown Flaresolverr error" }
                 /\ channels = <<>>
           /\ (~FetchRaised(tk) /\ FinalStatus(tk) >= 400) =>
                 /\ ~res.ok
                 /\ res.error = "Failed to load channels: HTTP"
                 /\ channels = <<>>
           /\ ~res.ok => (FetchRaised(tk) \/ FinalStatus(tk) >= 400)

\* A load whose fetch returned status 500 has failed and left the list
\* empty, which held channels when the load started.
C9_Witness ==
    /\ ended # None
    /\ ended[1].call = "load"
    /\ ended[1].direct_status = Some(500)
    /\ ~ended[1].result[1].ok
    /\ ended[1].had # <<>>
    /\ channels = <<>>

\* The channels of a list are in the order of the directory: a name that
\* begins with 18 is after every name that does not, and each of the two
\* groups is in ascending order.
Begins18(name) == Len(name) >= 2 /\ name[1] = "1" /\ name[2] = "8"

InDirectoryOrder(list) ==
    \A i, j \in 1..Len(list) :
        i < j =>
            /\ Begins18(list[i].name) => Begins18(list[j].name)
            /\ (Begins18(list[i].name) = Begins18(list[j].name))
               => ~StrLess(list[j].name, list[i].name)

\* A list is the complete result of a load that got `page`: it holds each
\* id of the page once, under its disambiguated name, in directory order.
CompleteResultOf(list, page) ==
    LET batch == EnumerateDuplicateNames(CollectChannels(page, {}))
    IN /\ Len(list) = Len(batch)
       /\ { list[i] : i \in 1..Len(list) }
             = { batch[i] : i \in 1..Len(batch) }
       /\ \A i, j \in 1..Len(list) : list[i].id = list[j].id => i = j
       /\ InDirectoryOrder(list)

\* C10: while loads run, the channel list is at every moment the list as it
\* was at the start (empty), or the complete result of the load that ended
\* last (empty when that load failed); what a reader gets is the list of
\* that moment, so empty or the complete result of one page, never a list
\* partly built, unsorted or with names still to disambiguate.
C10_ReadersSeeCompleteLists ==
    /\ ended = None => channels = <<>>
    /\ (ended # None /\ ended[1].call = "load") =>
          IF ended[1].result[1].ok
          THEN CompleteResultOf(channels, ended[1].text)
          ELSE channels = <<>>
    /\ \/ observed.channels = <<>>
       \/ \E page \in Pages : CompleteResultOf(observed.channels, page)

\* A reader has got, while a load was under way, the complete list of an
\* earlier load, and the channel list has been replaced since.
C10_Witness ==
    /\ observed.loading # {}
    /\ Len(observed.channels) = 3
    /\ Len(channels) = 4

\* C11: after _enumerate_duplicate_names the names of the channels of the
\* list are pairwise distinct, whatever the list.
C11_NamesPairwiseDistinct ==
    enumerated =>
        \A i, j \in 1..Len(enumerating) :
            enumerating[i].name = enumerating[j].name => i = j

\* The position of the i-th channel among the channels of its name, in the
\* order of the list, and the number of channels of its name.
RankInName(list, i) ==
    Cardinality({j \in 1..i : list[j].name = list[i].name})

SameName(list, i) ==
    Cardinality({j \in 1..Len(list) : list[j].name = list[i].name})

\* C12: _enumerate_duplicate_names gives each channel whose name occurs
\* k > 1 times in the list the suffix " (i)", i its position (from 1) among
\* the channels of that name in list order, and leaves a channel whose name
\* occurs once as it is; ids and the order of the list are kept.
C12_DuplicatesNumberedInOrder ==
    enumerated =>
        /\ Len(enumerating) = Len(given)
        /\ \A i \in 1..Len(given) :
              /\ enumerating[i].id = given[i].id
              /\ enumerating[i].name =
                    IF SameName(given, i) > 1
                    THEN given[i].name \o <<" ", "(">>
                         \o Str(RankInName(given, i)) \o <<")">>
                    ELSE given[i].name

\* The list A, A, B, A has been renamed: its last channel is "A (3)" and B
\* is as it was.
C12_Witness ==
    /\ enumerated
    /\ Len(given) = 4
    /\ [i \in 1..4 |-> given[i].name]
          = << <<"A">>, <<"A">>, <<"B">>, <<"A">> >>
    /\ enumerating[4].name = <<"A", " ", "(", "3", ")">>
    /\ enumerating[3].name = <<"B">>

\* C13: after every load_channels, ended by a return or by an error, every
\* channel of the list whose name begins with "18" is after every channel
\* whose name does not, and the names of each of the two groups ascend.
C13_ListInDirectoryOrder ==
    /\ \A i \in 1..(Len(channels) - 1) :
          LET a == channels[i].name
              b == channels[i + 1].name
          IN /\ Begins18(a) => Begins18(b)
             /\ (Begins18(a) = Begins18(b)) => ~StrLess(b, a)
    /\ (ended # None /\ ended[1].call = "load" /\ ~ended[1].result[1].ok)
       => channels = <<>>

\* A load has put the channel "18+", the first of its page, after the two
\* channels named A.
C13_Witness ==
    /\ ended # None
    /\ ended[1].call = "load"
    /\ ended[1].result[1].ok
    /\ ended[1].text # <<>>
    /\ ended[1].text[1].title = <<"1", "8", "+">>
    /\ Len(channels) = 3
    /\ channels[3].name = <<"1", "8", "+">>
    /\ channels[1].name = <<"A", " ", "(", "1", ")">>

\* A call of stream has ended with an error, or with a text.
Failed(r) == r.pc = "done" /\ ~r.result[1].ok

Succeeded(r) == r.pc = "done" /\ r.result[1].ok

\* The steps of a resolution, in the order of the protocol.
StepsInOrder == <<"page", "iframe", "auth", "lookup", "playlist">>

\* scheme://netloc of a URL
Origin(url) ==
    UrlParse(url).scheme \o <<":", "/", "/">> \o UrlParse(url).netloc

\* C14: a resolution has at most one fetch in flight and issues its fetches
\* in the order stream page, iframe target, auth request, server lookup,
\* playlist, each after all the earlier ones have returned; a resolution
\* that succeeds has issued exactly these five: the stream page of the
\* channel, the iframe source found in it, auth.php, server_lookup.php on
\* the host of the iframe source, and the playlist of the server.
C14_FiveFetchesOneAtATime ==
    LET r == resolution
    IN /\ r.in_flight <= 1
       /\ Len(r.fetches) <= 5
       /\ \A i \in 1..Len(r.fetches) :
             /\ r.fetches[i].step = StepsInOrder[i]
             /\ r.fetches[i].after = i - 1
       /\ Succeeded(r) =>
             /\ Len(r.fetches) = 5
             /\ r.in_flight = 0
             /\ r.fetches[1].url = StreamPageUrl(r.channel_id)
             /\ r.fetches[2].url = r.source_url
             /\ FindSub(r.fetches[3].url, <<"/", "a", "u", "t", "h", ".",
                 "p", "h", "p", "?", "c", "h", "a", "n", "n", "e", "l", "_",
                 "i", "d", "=">>, 1) # 0
             /\ StartsWith(r.fetches[4].url,
                           Origin(r.source_url) \o <<"/", "s", "e", "r", "v",
                               "e", "r", "_", "l", "o", "o", "k", "u", "p",
                               ".", "p", "h", "p">>)
             /\ r.fetches[5].url = r.server_url
             /\ EndsWith(r.server_url, <<"/", "m", "o", "n", "o", ".", "m",
                 "3", "u", "8">>)

\* A resolution has returned a playlist after five fetches.
C14_Witness ==
    /\ Succeeded(resolution)
    /\ Len(resolution.fetches) = 5
    /\ resolution.returned = 5
    /\ resolution.result[1].text # <<>>

\* The errors of the checks of the auth host and of the server key.
AuthHostErrors ==
    { "Invalid auth host: missing scheme or hostname",
      "Invalid auth host: port must be numeric",
      "Invalid auth host: missing port number" }

ServerKeyErrors ==
    { "No server key found in response",
      "Invalid server key: unexpected characters in hostname",
      "Invalid server key: missing scheme or hostname" }

\* The auth host, its white space removed, has no scheme or no netloc.
NoSchemeOrNetloc(raw_auth_url) ==
    LET parsed == UrlParse(RemoveSpace(Strip(raw_auth_url)))
    IN parsed.scheme = <<>> \/ parsed.netloc = <<>>

\* The server key is absent or empty, holds a colon once trimmed, or is
\* empty once the spaces and slashes around it are removed.
KeyMissing(key) == key = None \/ key[1] = <<>>

KeyHasColon(key) == ~KeyMissing(key) /\ FindFrom(Strip(key[1]), ":", 1) # 0

KeyEmptyTrimmed(key) ==
    /\ ~KeyMissing(key)
    /\ \A i \in 1..Len(key[1]) : key[1][i] \in {" ", "/"}

\* C15: when a step of a resolution fails (no iframe source in the stream
\* page, an auth host without scheme or netloc once its white space is
\* removed, an auth response whose status is not 200, a server key missing
\* or invalid), the resolution ends with an error and no text and has
\* issued no fetch of a later step: one fetch without iframe source, two
\* with an invalid auth host, three with a refused auth, four with an
\* invalid server key.
C15_FailureEndsResolution ==
    LET r == resolution
        ends_after(n) ==
            /\ Failed(r)
            /\ r.result[1].text = <<>>
            /\ Len(r.fetches) = n
            /\ r.in_flight = 0
    IN /\ (r.returned >= 1 /\ r.source_url = <<>>) => ends_after(1)
       /\ (r.channel_key # <<>> /\ NoSchemeOrNetloc(r.raw_auth_url)) =>
             ends_after(2) /\ r.result[1].error \in AuthHostErrors
       /\ (r.auth_status \notin {0, 200}) =>
             ends_after(3) /\ r.result[1].error = "Failed to get auth response"
       /\ (r.lookup # None /\ r.lookup[1].parses
             /\ (\/ KeyMissing(r.lookup[1].server_key)
                 \/ KeyHasColon(r.lookup[1].server_key)
                 \/ KeyEmptyTrimmed(r.lookup[1].server_key))) =>
             ends_after(4) /\ r.result[1].error \in ServerKeyErrors
       /\ Failed(r) => r.result[1].text = <<>> /\ r.in_flight = 0

\* A resolution whose auth host is " a.io :" has ended with an error after
\* two fetches.
C15_Witness ==
    /\ Failed(resolution)
    /\ resolution.raw_auth_url = <<" ", "a", ".", "i", "o", " ", ":">>
    /\ Len(resolution.fetches) = 2
    /\ resolution.result[1].error
          = "Invalid auth host: missing scheme or hostname"

\* The netloc of the auth host ends with a colon and a port that is not
\* made of digits.
HasNonNumericPort(raw_auth_url) ==
    LET netloc == UrlParse(RemoveSpace(Strip(raw_auth_url))).netloc
        colon == RFind(netloc, ":")
        port == SubSeq(netloc, colon + 1, Len(netloc))
    IN colon # 0 /\ port # <<>> /\ ~IsDigit(port)

\* C16: a resolution whose auth host has a port that is not a number, as
\* https://auth.example.com:notaport/path, fails with an error about the
\* port, and the auth request is never issued.
C16_NonNumericPortFails ==
    LET r == resolution
    IN (r.channel_key # <<>> /\ HasNonNumericPort(r.raw_auth_url)) =>
          /\ Failed(r)
          /\ r.result[1].error \in { "Invalid auth host: port must be numeric",
                                     "Invalid auth host: missing port number" }
          /\ Len(r.fetches) = 2

\* C17: a resolution fails before the playlist fetch, so with four fetches
\* issued, when the lookup response has no server_key or an empty one, when
\* the trimmed key holds a colon (the error then being the one about
\* unexpected characters), and when the key is empty once the spaces and
\* slashes around it are removed.
C17_BadServerKeyFailsBeforePlaylist ==
    LET r == resolution
        key == r.lookup[1].server_key
        no_playlist == Failed(r) /\ Len(r.fetches) = 4 /\ r.playlist = None
    IN (r.lookup # None /\ r.lookup[1].parses) =>
          /\ KeyMissing(key) =>
                /\ no_playlist
                /\ r.result[1].error = "No server key found in response"
          /\ KeyHasColon(key) =>
                /\ no_playlist
                /\ r.result[1].error =
                      "Invalid server key: unexpected characters in hostname"
          /\ (KeyEmptyTrimmed(key) /\ ~KeyHasColon(key)) =>
                /\ no_playlist
                /\ r.result[1].error =
                      "Invalid server key: missing scheme or hostname"
          /\ (~KeyMissing(key) /\ ~KeyHasColon(key) /\ ~KeyEmptyTrimmed(key))
                => Len(r.fetches) = 5

\* A resolution whose server key is " :bad" has failed on its unexpected
\* characters with four fetches issued.
C17_Witness ==
    /\ Failed(resolution)
    /\ resolution.lookup # None
    /\ resolution.lookup[1].server_key = Some(<<" ", ":", "b", "a", "d">>)
    /\ Len(resolution.fetches) = 4
    /\ resolution.result[1].error
          = "Invalid server key: unexpected characters in hostname"

\* The lines of the playlist a resolution got, and of the text it returned.
InLines == SplitLines(resolution.playlist[1])

OutLines == SplitLines(resolution.result[1].text)

\* The URI="..." attribute of a line: where its value begins (0 when the
\* line has none) and the value.
UriAt(line) ==
    LET at == FindSub(line, <<"U", "R", "I", "=", "\"">>, 1)
    IN IF at = 0 \/ FindFrom(line, "\"", at + 5) = 0 THEN 0 ELSE at + 5

UriOf(line) ==
    SubSeq(line, UriAt(line), FindFrom(line, "\"", UriAt(line)) - 1)

\* The line with the value of its URI attribute replaced.
WithUri(line, value) ==
    SubSeq(line, 1, UriAt(line) - 1) \o value
    \o SubSeq(line, FindFrom(line, "\"", UriAt(line)), Len(line))

\* The policy of the rewriter for a resolved content URI: the proxy path
\* when proxy_content is set or the path has an HLS extension, and the
\* resolved URL itself otherwise.
ContentPolicy(resolved) ==
    IF proxy_content \/ IsHlsPath(Lower(UrlParse(resolved).path))
    THEN ApiUrl \o <<"/", "c", "o", "n", "t", "e", "n", "t",
        "/">> \o Encrypt(resolved)
    ELSE resolved

\* C18: in the text a resolution returns, the URI of every #EXT-X-KEY line
\* of the playlist is replaced by <api_url>/key/<token1>/<token2>, token1
\* the token of the key URI resolved against the URL of the playlist and
\* token2 the token of the hostname of the iframe URL.
C18_KeyUriResolvedAndProxied ==
    Succeeded(resolution) =>
        \A i \in 1..Len(InLines) :
            (StartsWith(InLines[i], <<"#", "E", "X", "T", "-", "X", "-", "K",
                "E", "Y", ":">>) /\ UriAt(InLines[i]) # 0)
            => /\ i <= Len(OutLines)
               /\ OutLines[i] =
                     WithUri(InLines[i],
                         ApiUrl \o <<"/", "k", "e", "y", "/">>
                         \o Encrypt(UrlJoin(resolution.server_url,
                                            UriOf(InLines[i])))
                         \o <<"/">>
                         \o Encrypt(Hostname(UrlParse(resolution.source_url))))

\* C19: in the text a resolution returns, every line of the playlist that
\* is a relative URI (not empty, not a comment, without scheme), as
\* segment.ts, is resolved against the URL of the playlist and then treated
\* as an absolute one: with an HLS extension it becomes
\* <api_url>/content/<token of the resolved URL>.
C19_RelativeLineResolved ==
    Succeeded(resolution) =>
        \A i \in 1..Len(InLines) :
            (/\ InLines[i] # <<>>
             /\ InLines[i][1] # "#"
             /\ UrlParse(InLines[i]).scheme = <<>>)
            => /\ i <= Len(OutLines)
               /\ OutLines[i] =
                     ContentPolicy(UrlJoin(resolution.server_url, InLines[i]))

\* C20: in the text a resolution returns, the URI of every directive line
\* other than #EXT-X-KEY that has a URI attribute, as #EXT-X-MEDIA and
\* #EXT-X-MAP, is resolved against the URL of the playlist and replaced by
\* <api_url>/content/<token> when proxy_content is set or the resolved path
\* has an HLS extension, and by the resolved URL otherwise.
C20_DirectiveUriProxied ==
    Succeeded(resolution) =>
        \A i \in 1..Len(InLines) :
            (/\ StartsWith(InLines[i], <<"#">>)
             /\ ~StartsWith(InLines[i], <<"#", "E", "X", "T", "-", "X", "-",
                 "K", "E", "Y", ":">>)
             /\ UriAt(InLines[i]) # 0)
            => /\ i <= Len(OutLines)
               /\ OutLines[i] =
                     WithUri(InLines[i],
                         ContentPolicy(UrlJoin(resolution.server_url,
                                               UriOf(InLines[i]))))

\* The extension of the path of a URL, in lower case, the query left out.
ExtensionOf(url) == Lower(Suffix(UrlParse(url).path))

\* A line of a playlist that is an absolute URI by itself.
IsAbsoluteLine(line) ==
    /\ line # <<>>
    /\ line[1] # "#"
    /\ UrlParse(line).scheme # <<>>

\* C21: in the text a resolution returns, every line of the playlist that
\* is an absolute URI is <api_url>/content/<token of the URI> when
\* proxy_content is set, whatever its extension; when proxy_content is not
\* set it is so only when the extension of its path, in lower case and
\* without the query, is one of .m3u8 .ts .aac .vtt .m4s .m4a .mp4 .mp3,
\* and the line is unchanged otherwise.
C21_AbsoluteLinePolicy ==
    Succeeded(resolution) =>
        \A i \in 1..Len(InLines) :
            IsAbsoluteLine(InLines[i])
            => /\ i <= Len(OutLines)
               /\ OutLines[i] =
                     IF proxy_content
                        \/ ExtensionOf(InLines[i])
                              \in { <<".", "m", "3", "u", "8">>, <<".", "t",
                                  "s">>, <<".", "a", "a", "c">>, <<".", "v",
                                  "t", "t">>,
                                    <<".", "m", "4", "s">>, <<".", "m", "4",
                                        "a">>, <<".", "m", "p", "4">>, <<".",
                                        "m", "p", "3">> }
                     THEN ApiUrl \o <<"/", "c", "o", "n", "t", "e", "n", "t",
                         "/">> \o Encrypt(InLines[i])
                     ELSE InLines[i]

\* A resolution without proxy_content has returned a text in which the line
\* https://c.io/V.TS?x=1 is proxied and the line https://c.io/a.txt?f=b.ts
\* is as it was.
C21_Witness ==
    /\ Succeeded(resolution)
    /\ ~proxy_content
    /\ \E i \in 1..Len(InLines) :
          /\ InLines[i] = <<"h", "t", "t", "p", "s", ":", "/", "/", "c", ".",
              "i", "o", "/", "V", ".", "T", "S", "?", "x", "=", "1">>
          /\ OutLines[i] = ApiUrl \o <<"/", "c", "o", "n", "t", "e", "n",
              "t", "/">> \o Encrypt(InLines[i])
    /\ \E i \in 1..Len(InLines) :
          /\ InLines[i] = <<"h", "t", "t", "p", "s", ":", "/", "/", "c", ".",
              "i", "o", "/", "a", ".", "t", "x", "t", "?", "f", "=", "b",
              ".", "t", "s">>
          /\ OutLines[i] = InLines[i]

\* The content URIs of the lines of a text: the lines that are no comment
\* and not empty, and the values of the URI attributes.
ContentUris(lines) ==
    { lines[i] : i \in { j \in 1..Len(lines) :
                           lines[j] # <<>> /\ lines[j][1] # "#" } }
    \cup { UriOf(lines[i]) : i \in { j \in 1..Len(lines) :
                                       /\ StartsWith(lines[j], <<"#">>)
                                       /\ UriAt(lines[j]) # 0 } }

\* C22: with proxy_content set, in the text a resolution returns every
\* content URI starts with api_url, and no absolute URL of the playlist,
\* a line by itself or the URI attribute of a directive, is a content URI
\* of the text.
C22_EverythingProxied ==
    (Succeeded(resolution) /\ proxy_content) =>
        /\ \A uri \in ContentUris(OutLines) : StartsWith(uri, ApiUrl)
        /\ \A uri \in ContentUris(InLines) :
              UrlParse(uri).scheme # <<>> => uri \notin ContentUris(OutLines)

\* A line of a playlist that carries no URI: an empty line, or a comment,
\* tag or directive without a URI attribute.
CarriesNoUri(line) ==
    \/ line = <<>>
    \/ StartsWith(line, <<"#">>) /\ UriAt(line) = 0

\* C23: a resolution that got its playlist returns a text, and in it every
\* line of the playlist that carries no URI, an #EXT-X-KEY directive
\* without a URI attribute included, is as it was.
C23_LinesWithoutUriPassThrough ==
    (resolution.pc = "done" /\ resolution.playlist # None) =>
        /\ Succeeded(resolution)
        /\ \A i \in 1..Len(InLines) :
              CarriesNoUri(InLines[i])
              => i <= Len(OutLines) /\ OutLines[i] = InLines[i]

\* The last call of the settings module set config.api_url:
\* apply_initial_settings, or a set_public_url that raised nothing.
ApiUrlSet ==
    \/ settings_call.op = "apply_initial_settings"
    \/ settings_call.op = "set_public_url" /\ settings_call.raised = ""

\* The first valid URL among the candidates for config.api_url: the
\* normalised URL of the environment (PUBLIC_URL, else API_URL), the
\* normalised public_url of the settings file, the default.
FirstValidUrl ==
    LET candidates ==
            << EnvPublicUrl(environ), StoredPublicUrl(settings_file) >>
        valid == { i \in 1..2 : /\ ~candidates[i].raises
                                /\ candidates[i].url # <<>> }
    IN IF valid = {} THEN DEFAULT_API_URL
       ELSE candidates[CHOOSE i \in valid : \A j \in valid : i <= j].url

\* C24: after apply_initial_settings and after every set_public_url that
\* succeeds, config.api_url is the first valid URL among the normalised URL
\* of the environment, the normalised public_url of the settings file and
\* the default, an invalid candidate being passed over; and after a
\* set_public_url that succeeds the settings file holds the normalised
\* submitted URL as public_url, or no public_url when the submitted URL is
\* empty.
C24_ApiUrlIsFirstValidCandidate ==
    ApiUrlSet =>
        /\ api_url = FirstValidUrl
        /\ settings_call.op = "set_public_url" =>
              /\ settings_file.kind = "dict"
              /\ settings_file.data.public_url =
                    IF NormalizeUrl(settings_call.url).url = <<>> THEN None
                    ELSE Some(StoredText(NormalizeUrl(settings_call.url).url))

\* With PUBLIC_URL set to https://proxy.test/app/, set_public_url of
\* https://example.com/tv/ has succeeded: config.api_url is
\* https://proxy.test/app and the file holds https://example.com/tv.
C24_Witness ==
    /\ settings_call.op = "set_public_url"
    /\ settings_call.raised = ""
    /\ settings_call.url = <<"h", "t", "t", "p", "s", ":", "/", "/", "e",
        "x", "a", "m", "p", "l", "e", ".", "c", "o", "m", "/", "t", "v", "/">>
    /\ environ.PUBLIC_URL = <<"h", "t", "t", "p", "s", ":", "/", "/", "p",
        "r", "o", "x", "y", ".", "t", "e", "s", "t", "/", "a", "p", "p", "/">>
    /\ api_url = <<"h", "t", "t", "p", "s", ":", "/", "/", "p", "r", "o",
        "x", "y", ".", "t", "e", "s", "t", "/", "a", "p", "p">>
    /\ settings_file.data.public_url
          = Some(StoredText(<<"h", "t", "t", "p", "s", ":", "/", "/", "e",
              "x", "a", "m", "p", "l", "e", ".", "c", "o", "m", "/", "t",
              "v">>))

\* A submitted URL fails normalisation: it is not empty and it contains
\* white space, has no hostname, has a scheme other than http and https, or
\* carries parameters, a query or a fragment.
FailsNormalisation(url) ==
    LET stripped == Strip(url)
        parsed == UrlParse(IF FindSub(stripped, <<":", "/", "/">>, 1) = 0
                           THEN <<"h", "t", "t", "p", "s", ":", "/",
                               "/">> \o stripped ELSE stripped)
    IN /\ stripped # <<>>
       /\ \/ \E i \in 1..Len(stripped) : stripped[i] = " "
          \/ Hostname(parsed) = <<>>
          \/ parsed.scheme \notin { <<"h", "t", "t", "p">>, <<"h", "t", "t",
              "p", "s">> }
          \/ parsed.params # <<>>
          \/ parsed.query # <<>>
          \/ parsed.fragment # <<>>

\* C25: a set_public_url whose URL fails normalisation has raised
\* ValueError, and the settings file and config.api_url are as they were
\* before the call.
C25_InvalidUrlChangesNothing ==
    (/\ settings_call.op = "set_public_url"
     /\ FailsNormalisation(settings_call.url))
    => /\ settings_call.raised = "ValueError"
       /\ settings_file = settings_call.file_before
       /\ api_url = settings_call.api_url_before

\* set_public_url of https://x.io/?q=1 has raised ValueError while the file
\* holds https://s.io/x/ and config.api_url is https://s.io/x.
C25_Witness ==
    /\ settings_call.op = "set_public_url"
    /\ settings_call.url = <<"h", "t", "t", "p", "s", ":", "/", "/", "x",
        ".", "i", "o", "/", "?", "q", "=", "1">>
    /\ settings_call.raised = "ValueError"
    /\ settings_file.data.public_url
          = Some(StoredText(<<"h", "t", "t", "p", "s", ":", "/", "/", "s",
              ".", "i", "o", "/", "x", "/">>))
    /\ api_url = <<"h", "t", "t", "p", "s", ":", "/", "/", "s", ".", "i",
        "o", "/", "x">>

\* C26: a step changes the cookie jar only when in it a call of the solver
\* ends with a solution whose headers hold Set-Cookie; a fetch answered by
\* the direct transport, a solver call that fails and a solution without
\* Set-Cookie leave the jar as it is.
C26_OnlySolvedSetCookieChangesJar ==
    [][cookies' # cookies =>
          /\ \E t \in Tasks :
                task[t].pc = "await_post" /\ task'[t].pc = "idle"
          /\ ended' # None
          /\ ended'[1].solver_reply # None
          /\ Solved(ended'[1].solver_reply[1])
          /\ CookiesRaw(ended'[1].solver_reply[1].headers) # <<>>]_vars

\* A call of the solver has failed while the jar holds cookies.
C26_Witness ==
    /\ cookies # <<>>
    /\ ended # None
    /\ ended[1].solver_reply # None
    /\ ~Solved(ended[1].solver_reply[1])

\* The transport requests of a fetch, given by its URL, the jar, the solver
\* configuration and the time it started with, and the status of the direct
\* response (None while there is none): the recorded transport mode is no
\* argument.
RequestsOf(url, st, direct_status) ==
    LET by_solver ==
            /\ st.solver # ""
            /\ Protects(url)
            /\ ~ValidCookieAt(st.cookies, Hostname(url), st.now)
    IN IF by_solver THEN <<Request("solver", url)>>
       ELSE <<Request("direct", url)>>
            \o (IF /\ direct_status # None
                   /\ direct_status[1] \in {401, 403}
                   /\ st.solver # ""
                   /\ Protects(url)
                THEN <<Request("solver", url)>> ELSE <<>>)

\* The response of a fetch that returned one, given by the answers of the
\* transports.
ResponseOf(e) ==
    IF e.requests[Len(e.requests)].via = "direct"
    THEN Response("direct", e.direct_status[1], e.text)
    ELSE Response("solver",
                  IF e.solver_reply[1].solution_status = None THEN 0
                  ELSE e.solver_reply[1].solution_status[1],
                  e.text)

\* C27: the recorded transport mode has no part in the choice of
\* transport: whatever mode is recorded when a fetch starts, the requests
\* the fetch sends are those given by its URL, the jar, the solver
\* configuration and the upstream responses, and the response it returns
\* is the one the last transport gave.
C27_ModeNeverSelectsTransport ==
    /\ \A t \in GetsUnderWay :
          task[t].requests
              = RequestsOf(task[t].url, task[t].start[1],
                           task[t].direct_status)
    /\ (ended # None /\ ended[1].call = "get" /\ ended[1].result[1].ok)
          => ended[1].result[1].response = ResponseOf(ended[1])

\* A fetch that started with the direct transport recorded sends its first
\* request by the solver, and one that started with the solver recorded
\* sends it directly.
C27_Witness ==
    \E t \in GetsUnderWay :
        \/ /\ task[t].start[1].mode = Some(FALSE)
           /\ task[t].requests[1].via = "solver"
        \/ /\ task[t].start[1].mode = Some(TRUE)
           /\ task[t].requests[1].via = "direct"
           /\ Protects(task[t].url)

\* The fetch that ended last returned a response: its last request was
\* answered, a solver's answer being a solution.
FetchReturned ==
    /\ GetEnded
    /\ LET e == ended[1]
       IN \/ /\ e.requests[Len(e.requests)].via = "direct"
             /\ e.direct_status # None
          \/ /\ e.requests[Len(e.requests)].via = "solver"
             /\ e.solver_reply # None
             /\ Solved(e.solver_reply[1])

\* C28: after a fetch that returned a response, the recorded transport mode
\* is the transport that gave the response, and the fetch logged a change
\* of transport if and only if a mode was recorded before it, that mode was
\* the other transport, and the domain of the URL is a logged domain.
C28_ModeRecordedAndChangeLogged ==
    FetchReturned =>
        LET e == ended[1]
            by_solver == e.requests[Len(e.requests)].via = "solver"
        IN /\ last_transport_mode = Some(by_solver)
           /\ e.switch_logged <=> (/\ e.previous_mode # None
                                   /\ e.previous_mode[1] # by_solver
                                   /\ EndsWith(Hostname(e.url), DLHD_DAD))

\* The first match of a page with an id.
FirstMatch(page, id) ==
    page[CHOOSE k \in 1..Len(page) :
            /\ page[k].id = id
            /\ \A l \in 1..(k - 1) : page[l].id # id]

\* The name load_channels gives the channel of a match, before the
\* duplicates are numbered.
NameOfMatch(match) == Remove(Unescape(Strip(match.title)), "#")

\* C29: after a call of load_channels no two channels of the channel list
\* have the same id, and when the call got a page the list holds one
\* channel for each id of the page, named after the first match with that
\* id (with its number when the name occurs several times).
C29_OneChannelPerIdFirstWins ==
    (ended # None /\ ended[1].call = "load") =>
        /\ \A i, j \in 1..Len(channels) :
              channels[i].id = channels[j].id => i = j
        /\ ended[1].result[1].ok =>
              /\ { channels[i].id : i \in 1..Len(channels) }
                    = { ended[1].text[k].id : k \in 1..Len(ended[1].text) }
              /\ \A i \in 1..Len(channels) :
                    LET name == NameOfMatch(FirstMatch(ended[1].text,
                                                       channels[i].id))
                    IN \/ channels[i].name = name
                       \/ StartsWith(channels[i].name, name \o <<" ", "(">>)

\* A load of the page in which id 1 occurs twice has ended: the list has
\* three channels, and the channel of id 1 is named 18+ after its first
\* match.
C29_Witness ==
    /\ ended # None
    /\ ended[1].call = "load"
    /\ ended[1].result[1].ok
    /\ Len(ended[1].text) = 4
    /\ Len(channels) = 3
    /\ \E i \in 1..Len(channels) :
          channels[i] = Channel("1", <<"1", "8", "+">>)

\* The exceptions stream ends with that are no ValueError raised with a
\* message of its own: the errors of the fetches, and the errors of an
\* index, an attribute or a JSON text.
ForeignErrors ==
    FetchErrors \cup {"IndexError", "AttributeError", "JSONDecodeError"}

\* C30: a resolution whose iframe page defines no channel key fails with an
\* error of the kind of the other parse failures (missing iframe, invalid
\* auth host, invalid server key), a ValueError with a message of its own,
\* and has issued no auth request.
C30_MissingKeyIsProtocolError ==
    resolution.key_matches = Some(<<>>) =>
        /\ Failed(resolution)
        /\ resolution.result[1].error \notin ForeignErrors
        /\ Len(resolution.fetches) = 2

\* C31: a resolution whose server-lookup response has a status other than
\* 200 fails, whatever the body of the response holds, and has issued no
\* fetch of the playlist: its four fetches end with the server lookup.
C31_LookupStatusChecked ==
    LET r == resolution
    IN (r.lookup # None /\ r.lookup[1].status_code # 200) =>
          /\ Failed(r)
          /\ Len(r.fetches) = 4

\* C32: a resolution goes on to the server lookup only when the status of
\* the auth response is exactly 200: with any other status, a 204 or a 302
\* as much as a 403, it fails with the error of the auth response and has
\* issued three fetches, neither the server lookup nor the playlist among
\* them; with 200 the server lookup is its fourth fetch.
C32_AuthStatusExactly200 ==
    LET r == resolution
    IN r.auth_status # 0 =>
          /\ r.auth_status # 200 =>
                /\ Failed(r)
                /\ r.result[1].error = "Failed to get auth response"
                /\ r.result[1].text = <<>>
                /\ Len(r.fetches) = 3
                /\ \A i \in 1..Len(r.fetches) :
                      r.fetches[i].step \notin {"lookup", "playlist"}
          /\ r.auth_status = 200 =>
                /\ Len(r.fetches) >= 4
                /\ r.fetches[4].step = "lookup"
                /\ r.fetches[4].url = KeyUrl(r.source_url, r.channel_key)

\* The auth response had another 2xx or a 3xx status, and the resolution
\* ended there.
C32_Witness ==
    /\ resolution.auth_status \in {204, 302}
    /\ Failed(resolution)
    /\ Len(resolution.fetches) = 3
    /\ resolution.returned = 3

\* The netloc of the auth host, its white space removed.
AuthNetloc(raw_auth_url) == UrlParse(RemoveSpace(Strip(raw_auth_url))).netloc

\* The netloc of the auth host ends with a colon and a suffix that is not
\* made of digits.
HasNonNumericSuffix(raw_auth_url) ==
    LET netloc == AuthNetloc(raw_auth_url)
        colon == RFind(netloc, ":")
    IN colon # 0 /\ ~IsDigit(SubSeq(netloc, colon + 1, Len(netloc)))

\* The netloc of the auth host without that suffix.
WithoutSuffix(raw_auth_url) ==
    LET netloc == AuthNetloc(raw_auth_url)
    IN SubSeq(netloc, 1, RFind(netloc, ":") - 1)

\* The auth request of a resolution went to this netloc.
AuthRequestedAt(r, netloc) ==
    /\ Len(r.fetches) >= 3
    /\ r.fetches[3].step = "auth"
    /\ UrlParse(r.fetches[3].url).netloc = netloc
    /\ EndsWith(UrlParse(r.fetches[3].url).path,
                <<"/", "a", "u", "t", "h", ".", "p", "h", "p">>)

HostOf(url) ==
    LET netloc == UrlParse(url).netloc
        at == RFind(netloc, "@")
        hostinfo == SubSeq(netloc, at + 1, Len(netloc))
        colon == FindFrom(hostinfo, ":", 1)
    IN Lower(IF colon = 0 THEN hostinfo ELSE SubSeq(hostinfo, 1, colon - 1))

\* The server key of a lookup response, the spaces and slashes around it
\* removed.
TrimmedKey(lookup) ==
    RStrip(LStrip(Strip(lookup.server_key[1]), {" ", "/"}), {" ", "/"})

\* The domain of the servers, and the playlist of the key top1/cdn up to
\* the channel key.
NewksoDomain == <<".", "n", "e", "w", "k", "s", "o", ".", "r", "u">>

Top1Cdn ==
    <<"h", "t", "t", "p", "s", ":", "/", "/", "t", "o", "p", "1", ".", "n",
      "e", "w", "k", "s", "o", ".", "r", "u", "/", "t", "o", "p", "1", "/",
      "c", "d", "n">>

\* C34: the playlist of a server key that passes the checks is fetched from
\* https://top1.newkso.ru/top1/cdn/<channel key>/mono.m3u8 when the key is
\* top1/cdn, and otherwise from the host <key>new.newkso.ru with the path
\* /<key>/<channel key>/mono.m3u8; its host is a subdomain of newkso.ru in
\* every case.
C34_PlaylistOnNewkso ==
    LET r == resolution
        key == TrimmedKey(r.lookup[1])
        url == r.fetches[5].url
        tail == <<"/">> \o r.channel_key
                   \o <<"/", "m", "o", "n", "o", ".", "m", "3", "u", "8">>
    IN Len(r.fetches) = 5 =>
          /\ r.fetches[5].step = "playlist"
          /\ EndsWith(HostOf(url), NewksoDomain)
          /\ IF key = <<"t", "o", "p", "1", "/", "c", "d", "n">>
             THEN url = Top1Cdn \o tail
             ELSE /\ HostOf(url) = key \o <<"n", "e", "w">> \o NewksoDomain
                  /\ UrlParse(url).path = <<"/">> \o key \o tail

\* A line of the output stands for a line of the playlist: the line itself,
\* or, for an #EXT-X-KEY line and for an absolute URL, a line of the same
\* kind that the rewrite makes of it.
StandsFor(out, line) ==
    \/ out = line
    \/ /\ StartsWith(line, <<"#", "E", "X", "T", "-", "X", "-", "K", "E",
        "Y", ":">>)
       /\ StartsWith(out, <<"#", "E", "X", "T", "-", "X", "-", "K", "E", "Y",
           ":">>)
       /\ out = WithUri(line, UriOf(out))
    \/ /\ StartsWith(line, <<"h", "t", "t", "p">>)
       /\ out = ApiUrl \o <<"/", "c", "o", "n", "t", "e", "n", "t",
           "/">> \o Encrypt(line)

\* The lines of the output are as many as the lines of the playlist, and
\* each stands for the line of the playlist at its place.
LineForLine ==
    /\ Len(OutLines) = Len(InLines)
    /\ \A i \in 1..Len(InLines) : StandsFor(OutLines[i], InLines[i])

\* The text a resolution returned ends with a line feed.
EndsWithNewline ==
    LET text == resolution.result[1].text
    IN text # <<>> /\ text[Len(text)] = "\n"

\* The statement of C35 as it is made: the text a resolution returns has
\* one line for each line of the playlist, in the order of the playlist,
\* and ends with a line feed, the empty playlist included.
C35_LineForLineAlways ==
    Succeeded(resolution) => (LineForLine /\ EndsWithNewline)

\* C35: the text a resolution returns ends with a line feed; for a playlist
\* that is not empty it has one line for each line of the playlist, in the
\* order of the playlist, and for the empty playlist, which has no line, it
\* is a single line feed, that is one empty line.
C35_LineForLine ==
    Succeeded(resolution) =>
        /\ EndsWithNewline
        /\ IF resolution.playlist[1] = <<>>
           THEN /\ resolution.result[1].text = <<"\n">>
                /\ Len(InLines) = 0
                /\ Len(OutLines) = 1
           ELSE LineForLine

\* A playlist of four lines, an empty one and two rewritten ones among
\* them, came back as four lines.
C35_Witness ==
    /\ Succeeded(resolution)
    /\ Len(InLines) = 4
    /\ InLines[2] = <<>>
    /\ OutLines[2] = <<>>
    /\ OutLines[1] = InLines[1]
    /\ OutLines[3] # InLines[3]

\* The line the rewrite makes of an absolute URI under a value of the flag.
UnderFlag(line, flag) ==
    IF flag \/ IsHlsPath(Lower(UrlParse(line).path))
    THEN ApiUrl \o <<"/", "c", "o", "n", "t", "e", "n", "t",
        "/">> \o Encrypt(line)
    ELSE line

\* The lines of the text a resolution returned are all rewritten under the
\* value config.proxy_content had when the playlist came back.
OneFlagForAllLines ==
    Succeeded(resolution) =>
        /\ resolution.proxy_read # None
        /\ Len(OutLines) >= Len(InLines)
        /\ \A i \in 1..Len(InLines) :
              IsAbsoluteLine(InLines[i]) =>
                  OutLines[i] = UnderFlag(InLines[i],
                      resolution.proxy_read[1])

\* The value read for a rewrite is the value config.proxy_content has at the
\* step that rewrites, whatever it was when stream was called and whatever
\* it was at the rewrite of the call before.
ReadAtRewrite ==
    (resolution.pc = "playlist" /\ resolution'.playlist # None)
        => resolution'.proxy_read = Some(proxy_content)

\* C36: config.proxy_content is read when the playlist is rewritten and is
\* not kept from the call of stream or from an earlier call: the rewrite
\* follows the value the flag has at that step, so that a change between two
\* calls, or while the call awaits a fetch, governs the rewrite; and all the
\* lines of one text are rewritten under that one value, though the flag is
\* set and reset by other activity.
C36_FlagReadAtRewrite == []OneFlagForAllLines /\ [][ReadAtRewrite]_vars

\* stream was called with proxy_content set, the flag was reset while the
\* call awaited, and the text returned has https://c.io/v.ts proxied and
\* https://c.io/t.png as it was.
C36_Witness ==
    /\ Succeeded(resolution)
    /\ resolution.proxy_at_call = Some(TRUE)
    /\ resolution.proxy_read = Some(FALSE)
    /\ \E i \in 1..Len(InLines) :
          /\ InLines[i] = <<"h", "t", "t", "p", "s", ":", "/", "/", "c", ".",
              "i", "o", "/", "t", ".", "p", "n", "g">>
          /\ OutLines[i] = InLines[i]
    /\ \E i \in 1..Len(InLines) :
          /\ InLines[i] = <<"h", "t", "t", "p", "s", ":", "/", "/", "c", ".",
              "i", "o", "/", "v", ".", "t", "s">>
          /\ OutLines[i] # InLines[i]

\* The channel key a call of stream took from its iframe page: the last
\* match.
OwnKey(x) == x.key_matches[1][Len(x.key_matches[1])]

\* The fetches of a call of stream are made of what its own responses gave:
\* the stream page of its channel id, the iframe source of its stream page,
\* the auth request of its own channel key and auth host, the server lookup
\* of its own channel key on the host of its own iframe source, the playlist
\* of the server key of its own lookup and of its own channel key.
UsesOwnValues(x) ==
    /\ Len(x.fetches) >= 1 => x.fetches[1].url = StreamPageUrl(x.channel_id)
    /\ Len(x.fetches) >= 2 => x.fetches[2].url = x.source_url
    /\ Len(x.fetches) >= 3 =>
          x.fetches[3].url
             = AuthRequestUrl(AuthHost(x.raw_auth_url).parsed, OwnKey(x))
    /\ Len(x.fetches) >= 4 =>
          x.fetches[4].url = KeyUrl(x.source_url, OwnKey(x))
    /\ Len(x.fetches) >= 5 =>
          x.fetches[5].url = ServerUrl(x.lookup[1].server_key, OwnKey(x)).url

\* A call of stream that has not got its iframe page yet holds no channel
\* key, no auth host and no server key, whatever the calls before it and
\* beside it have decoded.
HoldsNothingYet(x) ==
    x.pc \in {"idle", "page", "iframe"} =>
        /\ x.key_matches = None
        /\ x.channel_key = <<>>
        /\ x.raw_auth_url = <<>>
        /\ x.lookup = None
        /\ x.server_url = <<>>

\* Both calls of stream keep to their own values.
KeepApart ==
    /\ UsesOwnValues(resolution)
    /\ UsesOwnValues(concurrent)
    /\ HoldsNothingYet(resolution)
    /\ HoldsNothingYet(concurrent)

\* C37: of two calls of stream run on one fetcher with their steps
\* interleaved, each makes its auth request, its server lookup and its
\* playlist URL from the channel key, the auth host and the server key of
\* its own responses; a call holds none of these before it has decoded
\* them itself, whatever a call before it or beside it decoded; and no step
\* of a call of stream changes the channel list.
C37_ResolutionsKeepApart == []KeepApart /\ [][channels' = channels]_vars

\* Both calls await their server lookup, the first with the channel key k
\* and the second with j, on a fetcher that holds a channel list.
C37_Witness ==
    /\ resolution.pc = "lookup"
    /\ concurrent.pc = "lookup"
    /\ resolution.channel_key = <<"k">>
    /\ concurrent.channel_key = <<"j">>
    /\ resolution.fetches[4].url # concurrent.fetches[4].url
    /\ channels # <<>>

\* The error _flaresolverr_get raises on an answer that is no solution: the
\* error of the POST, or the one of the HTTP status, of the body that does
\* not parse, or of the envelope.
SolverError(answer) ==
    IF answer.raised # "" THEN answer.raised
    ELSE IF answer.status_code >= 400
    THEN "Flaresolverr request failed with HTTP"
    ELSE IF ~answer.parses THEN "Invalid Flaresolverr response"
    ELSE IF answer.message # "" THEN answer.message
    ELSE "Unknown Flaresolverr error"

\* The retry by the solver of an ended fetch failed.
RetryFailed(tk) ==
    /\ Len(tk.requests) = 2
    /\ tk.requests[1].via = "direct"
    /\ tk.solver_reply # None
    /\ ~Solved(tk.solver_reply[1])

\* A fetch whose retry by the solver failed has failed with the error of
\* the solver and no response, after a 401 or 403 and two requests; while
\* the retry is awaited the recorded transport mode is the one of the start
\* of the call.
RetryFailureRaised ==
    /\ (GetEnded /\ RetryFailed(ended[1])) =>
          LET tk == ended[1]
              res == tk.result[1]
          IN /\ tk.direct_status[1] \in {401, 403}
             /\ ~res.ok
             /\ res.error = SolverError(tk.solver_reply[1])
             /\ tk.text = NoText
             /\ tk.requests
                   = << Request("direct", tk.url), Request("solver",
                       tk.url) >>
    /\ \A t \in GetsUnderWay :
          Len(task[t].requests) = 2 =>
              task[t].start[1].mode = last_transport_mode

\* The step that ends a fetch on the failure of its retry leaves the
\* recorded transport mode as it is.
RetryFailureKeepsMode ==
    (\E t \in Tasks :
        /\ task[t].call \in GetCalls
        /\ Len(task[t].requests) = 2
        /\ task'[t].pc = "idle"
        /\ ended' # None
        /\ ~ended'[1].result[1].ok)
    => last_transport_mode' = last_transport_mode

\* C38: when the direct request of a fetch returns 401 or 403 and the retry
\* by the solver fails, on an error of the solver or of the POST itself, the
\* fetch fails with the solver's error: the 401 or 403 response is not
\* returned, no third request is sent, and the recorded transport mode stays
\* what it was when the call started.
C38_RetryFailureRaised == []RetryFailureRaised /\ [][RetryFailureKeepsMode]_vars

\* A fetch has failed with "Timeout" after a 403 and a retry by the solver
\* that timed out, the recorded mode being that of an earlier fetch by the
\* solver, whose cookie made this fetch begin directly.
C38_Witness ==
    /\ GetEnded
    /\ RetryFailed(ended[1])
    /\ ended[1].direct_status = Some(403)
    /\ ended[1].solver_reply[1].raised = "Timeout"
    /\ ended[1].result[1].error = "Timeout"
    /\ last_transport_mode = Some(TRUE)

\* The first request of every fetch under way is the one given by the jar,
\* the clock and the solver endpoint as they were when the call started: by
\* the solver when the endpoint was configured, the host protected and no
\* cookie of the jar valid for it, direct otherwise; what the jar holds now
\* is no argument.
FirstTransportFromStart ==
    \A t \in GetsUnderWay :
        LET tk == task[t]
            st == tk.start[1]
        IN tk.requests[1].via =
              (IF /\ st.solver # ""
                  /\ Protects(tk.url)
                  /\ ~ValidCookieAt(st.cookies, Hostname(tk.url), st.now)
               THEN "solver" ELSE "direct")

\* A step leaves the first request of every fetch that is under way before
\* and after it as it is, and a step that changes the jar leaves every other
\* fetch where it is suspended.
FirstTransportKept ==
    \A t \in Tasks :
        (task[t].call \in GetCalls /\ task'[t].call \in GetCalls) =>
            /\ task'[t].requests[1] = task[t].requests[1]
            /\ task'[t].start = task[t].start
            /\ (cookies' # cookies /\ task'[t].pc = task[t].pc) =>
                  task'[t] = task[t]

\* C39: the transport of the first request of a fetch is chosen once, from
\* the jar as it is when the call starts: fetches of a protected host
\* started while the jar holds no valid cookie all go by the solver, also
\* when several are under way at once, and a cookie that one of them stores
\* while another awaits its request changes nothing of the other's request.
C39_TransportChosenAtStart ==
    []FirstTransportFromStart /\ [][FirstTransportKept]_vars

\* Two loads were started with no valid cookie in the jar and both went by
\* the solver; one has ended and stored a cookie that is valid for the
\* host, and the other still awaits the solver.
C39_Witness ==
    /\ ended # None
    /\ ended[1].call = "load"
    /\ ended[1].requests[1].via = "solver"
    /\ \E t \in GetsUnderWay :
          /\ task[t].pc = "await_post"
          /\ task[t].requests = << Request("solver", task[t].url) >>
          /\ ~ValidCookieAt(task[t].start[1].cookies, Hostname(task[t].url),
                            task[t].start[1].now)
          /\ ValidCookieAt(cookies, Hostname(task[t].url), now)

\* A load ends at this step.
LoadEndsNow ==
    \E t \in Tasks :
        /\ task[t].call = "load"
        /\ task'[t].call # "load"

\* The step at which a load ends makes the channel list the result of that
\* load, complete when it succeeded and empty when it failed, whatever the
\* list held, whichever load started first and whatever load is still under
\* way; no other step changes the list.
LastLoadToEndWins ==
    IF LoadEndsNow
    THEN /\ ended' # None
         /\ ended'[1].call = "load"
         /\ IF ended'[1].result[1].ok
            THEN CompleteResultOf(channels', ended'[1].text)
            ELSE channels' = <<>>
    ELSE channels' = channels

\* C40: when calls of load_channels overlap, each makes the channel list its
\* own result at the step it ends, and nothing else changes the list: once
\* all have ended the list is the result of the one that ended last, in
\* whatever order they started, and it is empty when that one failed, though
\* a load that ran beside it had succeeded.
C40_LastLoadToEndWins == [][LastLoadToEndWins]_vars

\* Two loads overlapped: a reader got the three channels the one published
\* while the other was under way; the other, started when the list was still
\* empty, has failed since, and the list is empty.
C40_Witness ==
    /\ ended # None
    /\ ended[1].call = "load"
    /\ ~ended[1].result[1].ok
    /\ ended[1].had = <<>>
    /\ \A t \in Tasks : task[t].call # "load"
    /\ observed.loading # {}
    /\ Len(observed.channels) = 3
    /\ channels = <<>>

==========================================================================
